---- MODULE Spec2Model ----
(***************************************************************************)
(* A model of bokeh/plotting/helpers.py: the keyword-argument normalisers  *)
(* and the tool-name resolver behind the figure and glyph methods.         *)
(*                                                                         *)
(* Every function of the module is one action: it draws the call's         *)
(* arguments from a bounded set, runs the function as the source computes  *)
(* it, and records the call in the state (fn, args), together with what    *)
(* the call left behind: its return value or error (ret) and the objects   *)
(* it mutated (kwargs, source, toolbar, warned).                           *)
(*                                                                         *)
(* Python strings that the code takes apart or puts together (tool names,  *)
(* the tools argument, the keys of kwargs, the names of properties) are    *)
(* sequences of one-character strings, "pan" being <<"p", "a", "n">>;      *)
(* class names, error types and messages are TLA+ strings.                 *)
(*                                                                         *)
(* A result the code computes once and then uses several times (a local    *)
(* variable) is bound as the element of a one-element set and taken out    *)
(* with The: The({ f(v) : v \in {e} }) is f(e) with e evaluated once.       *)
(***************************************************************************)
EXTENDS Integers, Sequences, FiniteSets, TLC

VARIABLES
    fn,       \* the function called last ("" before the first call)
    args,     \* its arguments, as passed
    ret,      \* what it returned or raised
    prev,     \* ret of the call before, when that call had the same arguments
    kwargs,   \* the kwargs dict it was given, as the call left it
    source,   \* the data source it was given, as the call left it
    toolbar,  \* the toolbar it was given, as the call left it
    warned,   \* the warnings it emitted, in order
    figure,   \* the plot a glyph method was called on, as the calls left it
    calls     \* the glyph-method calls made on the plot so far, in order

vars == <<fn, args, ret, prev, kwargs, source, toolbar, warned, figure, calls>>

(***************************************************************************)
(* Python values                                                           *)
(***************************************************************************)

\* The element of a one-element set.
The(S) == CHOOSE x \in S : TRUE

\* None
None == [kind |-> "None"]

\* The characters the modelled strings are made of, in code-point order.
Alphabet ==
    <<"\t", " ", ",", "2",
      "A", "B", "C", "D", "E", "F", "G", "H", "I", "J", "K", "L", "M",
      "N", "O", "P", "Q", "R", "S", "T", "U", "V", "W", "X", "Y", "Z",
      "_",
      "a", "b", "c", "d", "e", "f", "g", "h", "i", "j", "k", "l", "m",
      "n", "o", "p", "q", "r", "s", "t", "u", "v", "w", "x", "y", "z">>

\* The position of each character in code-point order.
OrdTable ==
    [c \in {Alphabet[i] : i \in 1..Len(Alphabet)} |->
        CHOOSE i \in 1..Len(Alphabet) : Alphabet[i] = c]

Ord(c) == OrdTable[c]

\* str.lower() on one character, and on a string.
LowerChar(c) ==
    IF Ord(c) >= Ord("A") /\ Ord(c) <= Ord("Z")
    THEN Alphabet[Ord(c) + (Ord("a") - Ord("A"))]
    ELSE c

lower(s) == [i \in 1..Len(s) |-> LowerChar(s[i])]

\* s < t for Python strings: lexicographic by code point.
RECURSIVE StrLess(_, _)
StrLess(s, t) ==
    IF t = <<>> THEN FALSE
    ELSE IF s = <<>> THEN TRUE
    ELSE IF s[1] = t[1] THEN StrLess(Tail(s), Tail(t))
    ELSE Ord(s[1]) < Ord(t[1])

\* x in seq
Contains(seq, x) == \E i \in 1..Len(seq) : seq[i] = x

\* The elements of a sequence.
Range(seq) == {seq[i] : i \in 1..Len(seq)}

\* sorted(seq) for a sequence of strings.
sorted(seq) == SortSeq(seq, StrLess)

Min(a, b) == IF a <= b THEN a ELSE b

(***************************************************************************)
(* The tool registry                                                       *)
(***************************************************************************)

\* A registry entry whose value is a constructor lambda: the class it
\* instantiates and the keyword arguments it passes.
Ctor(key, cls, kw) == [key |-> key, alias |-> <<>>, cls |-> cls, kw |-> kw]

\* A registry entry whose value is the name of another entry.
Alias(key, target) == [key |-> key, alias |-> target, cls |-> "", kw |-> <<>>]

\* _known_tools, in the order the source writes it.
_known_tools ==
    <<
      Ctor(<<"p", "a", "n">>,
           "PanTool", <<<<"dimensions", <<"width", "height">>>>>>),
      Ctor(<<"x", "p", "a", "n">>,
           "PanTool", <<<<"dimensions", <<"width">>>>>>),
      Ctor(<<"y", "p", "a", "n">>,
           "PanTool", <<<<"dimensions", <<"height">>>>>>),
      Ctor(<<"w", "h", "e", "e", "l", "_", "z", "o", "o", "m">>,
           "WheelZoomTool", <<<<"dimensions", <<"width", "height">>>>>>),
      Ctor(<<"x", "w", "h", "e", "e", "l", "_", "z", "o", "o", "m">>,
           "WheelZoomTool", <<<<"dimensions", <<"width">>>>>>),
      Ctor(<<"y", "w", "h", "e", "e", "l", "_", "z", "o", "o", "m">>,
           "WheelZoomTool", <<<<"dimensions", <<"height">>>>>>),
      Ctor(<<"x", "w", "h", "e", "e", "l", "_", "p", "a", "n">>,
           "WheelPanTool", <<<<"dimension", <<"width">>>>>>),
      Ctor(<<"y", "w", "h", "e", "e", "l", "_", "p", "a", "n">>,
           "WheelPanTool", <<<<"dimension", <<"height">>>>>>),
      Ctor(<<"r", "e", "s", "i", "z", "e">>,
           "ResizeTool", <<>>),
      Ctor(<<"c", "l", "i", "c", "k">>,
           "TapTool", <<<<"behavior", <<"inspect">>>>>>),
      Ctor(<<"t", "a", "p">>,
           "TapTool", <<>>),
      Ctor(<<"c", "r", "o", "s", "s", "h", "a", "i", "r">>,
           "CrosshairTool", <<>>),
      Ctor(<<"b", "o", "x", "_", "s", "e", "l", "e", "c", "t">>,
           "BoxSelectTool", <<>>),
      Ctor(<<"x", "b", "o", "x", "_", "s", "e", "l", "e", "c", "t">>,
           "BoxSelectTool", <<<<"dimensions", <<"width">>>>>>),
      Ctor(<<"y", "b", "o", "x", "_", "s", "e", "l", "e", "c", "t">>,
           "BoxSelectTool", <<<<"dimensions", <<"height">>>>>>),
      Ctor(<<"p", "o", "l", "y", "_", "s", "e", "l", "e", "c", "t">>,
           "PolySelectTool", <<>>),
      Ctor(<<"l", "a", "s", "s", "o", "_", "s", "e", "l", "e", "c", "t">>,
           "LassoSelectTool", <<>>),
      Ctor(<<"b", "o", "x", "_", "z", "o", "o", "m">>,
           "BoxZoomTool", <<<<"dimensions", <<"width", "height">>>>>>),
      Ctor(<<"x", "b", "o", "x", "_", "z", "o", "o", "m">>,
           "BoxZoomTool", <<<<"dimensions", <<"width">>>>>>),
      Ctor(<<"y", "b", "o", "x", "_", "z", "o", "o", "m">>,
           "BoxZoomTool", <<<<"dimensions", <<"height">>>>>>),
      Ctor(<<"h", "o", "v", "e", "r">>,
           "HoverTool", <<<<"tooltips", <<"index=$index", "data (x, y)=($x, $y)", "canvas (x, y)=($sx, $sy)">>>>>>),
      Ctor(<<"s", "a", "v", "e">>,
           "SaveTool", <<>>),
      Alias(<<"p", "r", "e", "v", "i", "e", "w", "s", "a", "v", "e">>, <<"s", "a", "v", "e">>),
      Ctor(<<"u", "n", "d", "o">>,
           "UndoTool", <<>>),
      Ctor(<<"r", "e", "d", "o">>,
           "RedoTool", <<>>),
      Ctor(<<"r", "e", "s", "e", "t">>,
           "ResetTool", <<>>),
      Ctor(<<"h", "e", "l", "p">>,
           "HelpTool", <<>>)

    >>

\* _known_tools[name]
Registry(name) ==
    _known_tools[CHOOSE i \in 1..Len(_known_tools) : _known_tools[i].key = name]

\* The key set of the registry.
KnownKeys == {_known_tools[i].key : i \in 1..Len(_known_tools)}

\* _known_tools.keys(): a dict yields its keys in an order the code does not
\* choose.  The orders modelled: as written, reversed, and rotated by one.
KeyOrders ==
    LET n == Len(_known_tools)
        k == [i \in 1..n |-> _known_tools[i].key]
    IN  { k,
          [i \in 1..n |-> k[n + 1 - i]],
          [i \in 1..n |-> k[(i % n) + 1]] }

(***************************************************************************)
(* difflib.get_close_matches, as _tool_from_string calls it (n = 3,        *)
(* cutoff = 0.6, no junk; autojunk needs 200 elements and never applies)   *)
(***************************************************************************)

\* The length of the longest common run of a[i:ahi] and b[j:bhi] that starts
\* at i and j (0-based, as in difflib).
RunLen(a, b, i, ahi, j, bhi) ==
    CHOOSE k \in 0..Min(ahi - i, bhi - j) :
        /\ \A h \in 1..k : a[i + h] = b[j + h]
        /\ \/ k = Min(ahi - i, bhi - j)
           \/ a[i + k + 1] # b[j + k + 1]

\* Of the runs <<i, j, k>>, the longest, then the one with the least i, then
\* the one with the least j; <<alo, blo, 0>> when every run is empty.
LongestRun(runs, alo, blo) ==
    IF \A r \in runs : r[3] = 0 THEN <<alo, blo, 0>>
    ELSE CHOOSE m \in runs :
             \A r \in runs :
                 \/ m[3] > r[3]
                 \/ m[3] = r[3] /\ m[1] < r[1]
                 \/ m[3] = r[3] /\ m[1] = r[1] /\ m[2] <= r[2]

\* SequenceMatcher.find_longest_match: <<i, j, k>> with a[i:i+k] = b[j:j+k],
\* k maximal, then i minimal, then j minimal; <<alo, blo, 0>> without a match.
find_longest_match(a, b, alo, ahi, blo, bhi) ==
    LongestRun({ <<p[1], p[2], RunLen(a, b, p[1], ahi, p[2], bhi)>> :
                   p \in (alo..(ahi - 1)) \X (blo..(bhi - 1)) },
               alo, blo)

\* The total size of SequenceMatcher.get_matching_blocks() over a[alo:ahi]
\* and b[blo:bhi]: the longest match m, then the same to its left and right.
RECURSIVE MatchingSize(_, _, _, _, _, _)
MatchingSize(a, b, alo, ahi, blo, bhi) ==
    The({ IF m[3] = 0 THEN 0
          ELSE m[3]
               + (IF alo < m[1] /\ blo < m[2]
                  THEN MatchingSize(a, b, alo, m[1], blo, m[2]) ELSE 0)
               + (IF m[1] + m[3] < ahi /\ m[2] + m[3] < bhi
                  THEN MatchingSize(a, b, m[1] + m[3], ahi, m[2] + m[3], bhi)
                  ELSE 0) :
          m \in {find_longest_match(a, b, alo, ahi, blo, bhi)} })

\* A ratio 2.0 * matches / length as the fraction <<num, den>>; difflib
\* returns 1.0 when both sequences are empty.
Ratio(matches, length) ==
    IF length = 0 THEN <<1, 1>> ELSE <<2 * matches, length>>

\* SequenceMatcher.ratio()
ratio(a, b) == Ratio(MatchingSize(a, b, 0, Len(a), 0, Len(b)), Len(a) + Len(b))

\* SequenceMatcher.quick_ratio(): the elements of a that b has, counted with
\* multiplicity.
quick_ratio(a, b) ==
    LET count(s, c) == Cardinality({i \in 1..Len(s) : s[i] = c})
        shared == {i \in 1..Len(a) :
                     Cardinality({h \in 1..i : a[h] = a[i]}) <= count(b, a[i])}
    IN  Ratio(Cardinality(shared), Len(a) + Len(b))

\* SequenceMatcher.real_quick_ratio()
real_quick_ratio(a, b) == Ratio(Min(Len(a), Len(b)), Len(a) + Len(b))

\* r >= 0.6
AtLeastCutoff(r) == 5 * r[1] >= 3 * r[2]

\* r > s for two ratios
RatioGreater(r, s) == r[1] * s[2] > s[1] * r[2]

\* (score, x) > (score, y) for two scored possibilities: by score, then by
\* the string.
ScoredGreater(p, q) ==
    \/ RatioGreater(p[1], q[1])
    \/ /\ p[1][1] * q[1][2] = q[1][1] * p[1][2]
       /\ StrLess(q[2], p[2])

\* The loop of get_close_matches: the (score, x) pairs of the possibilities
\* x that pass the three tests against the cutoff, in the order of the
\* possibilities.
RECURSIVE CloseResult(_, _)
CloseResult(word, possibilities) ==
    IF possibilities = <<>> THEN <<>>
    ELSE The({ (IF /\ AtLeastCutoff(real_quick_ratio(x, word))
                   /\ AtLeastCutoff(quick_ratio(x, word))
                   /\ AtLeastCutoff(ratio(x, word))
                THEN <<<<ratio(x, word), x>>>>
                ELSE <<>>)
               \o CloseResult(word, Tail(possibilities)) :
               x \in {Head(possibilities)} })

\* heapq.nlargest(n, result): the n largest pairs, largest first.
RECURSIVE nlargest(_, _)
nlargest(n, result) ==
    IF n = 0 \/ result = <<>> THEN <<>>
    ELSE The({ <<result[i]>>
               \o nlargest(n - 1, SubSeq(result, 1, i - 1)
                                  \o SubSeq(result, i + 1, Len(result))) :
               i \in { CHOOSE h \in 1..Len(result) :
                          \A j \in 1..Len(result) :
                              j = h \/ ScoredGreater(result[h], result[j]) } })

\* difflib.get_close_matches(word, possibilities): the possibilities that
\* score at least the cutoff, best first, at most three.  The matcher holds
\* the word and the possibilities as values (w, p): they are evaluated once.
get_close_matches(word, possibilities) ==
    The({ [i \in 1..Len(best) |-> best[i][2]] :
          best \in { nlargest(3, CloseResult(w, p)) :
                       w \in {word}, p \in {possibilities} } })

(***************************************************************************)
(* _tool_from_string                                                       *)
(***************************************************************************)

\* A Tool instance: the object's identity, its class and the keyword
\* arguments it was constructed with.
Tool(id, cls, kw) == [kind |-> "Tool", id |-> id, cls |-> cls, kw |-> kw]

\* The identities of n objects constructed while the objects in live exist:
\* n identities no live object has.
NewIds(live, n) ==
    LET free(k) == {i \in 1..(Cardinality(live) + n) : i \notin live}
        RECURSIVE pick(_, _)
        pick(s, m) == IF m = 0 THEN <<>>
                      ELSE LET x == CHOOSE i \in s : \A h \in s : i <= h
                           IN  <<x>> \o pick(s \ {x}, m - 1)
    IN  pick(free(n), n)

\* What a call returned, or the error it raised.
Return(v) == [outcome |-> "return", value |-> v]
Raise(e)  == [outcome |-> "raise", error |-> e]
NoCall    == [outcome |-> "none"]

\* sorted(_known_tools.keys()) for each order keys() can yield.
SortedKeys == [keys \in KeyOrders |-> sorted(keys)]

\* _tool_from_string matching the name as given, not lower-cased.
_tool_from_string_no_lower(name, keys, id) ==
    LET known_tools == SortedKeys[keys]
    IN  IF Contains(known_tools, name)
        THEN LET entry == Registry(name)
                 tool_fn == IF entry.alias # <<>> THEN Registry(entry.alias)
                            ELSE entry
             IN  Return(Tool(id, tool_fn.cls, tool_fn.kw))
        ELSE The({ Raise([type |-> "ValueError",
                          message |-> "unexpected tool name",
                          name |-> name,
                          text |-> IF matches = <<>> THEN "possible"
                                   ELSE "similar",
                          tools |-> IF matches = <<>> THEN known_tools
                                    ELSE matches]) :
                   matches \in {get_close_matches(name, known_tools)} })

\* _tool_from_string(name), with keys the order _known_tools.keys() yields
\* and id the identity of the object a constructor call creates.
_tool_from_string(name, keys, id) ==
    LET known_tools == SortedKeys[keys]
    IN  IF Contains(known_tools, name)
        THEN LET entry == Registry(name)
                 tool_fn == IF entry.alias # <<>> THEN Registry(entry.alias)
                            ELSE entry
             IN  Return(Tool(id, tool_fn.cls, tool_fn.kw))
        ELSE The({ Raise([type |-> "ValueError",
                          message |-> "unexpected tool name",
                          name |-> name,
                          text |-> IF matches = <<>> THEN "possible"
                                   ELSE "similar",
                          tools |-> IF matches = <<>> THEN known_tools
                                    ELSE matches]) :
                   matches \in {get_close_matches(lower(name), known_tools)} })

\* Names that are no key of the registry.
UnknownNames ==
    {
      <<>>,
      <<"P", "A", "N">>,
      <<"P", "a", "n">>,
      <<"p", "a", "n", "n">>,
      <<"z", "o", "o", "m">>,
      <<"w", "h", "e", "e", "l">>,
      <<"s", "e", "l", "e", "c", "t">>,
      <<"b", "o", "x">>,
      <<"f", "o", "o">>,
      <<"x", "y", "z">>,
      <<"s", "a", "v", "e", "e">>,
      <<"h", "e", "l", "p", "2">>,
      <<"h", "o", "o", "v", "e", "r">>,
      <<"R", "e", "s", "e", "t">>,
      <<"t", "a", "p", " ">>,
      <<"w", "h", "e", "e", "l", "z", "o", "o", "m">>,
      <<"b", "o", "x", " ", "s", "e", "l", "e", "c", "t">>,
      <<"l", "a", "s", "s", "o">>,
      <<"p", "r", "e", "v", "i", "e", "w">>,
      <<"x">>,
      <<"p", "a", "n", ",", "r", "e", "s", "e", "t">>,
      <<"w", "h", "e", "e", "l", "_", "z", "o", "o">>,
      <<"U", "N", "D", "O">>,
      <<"r", "e", "d", "o", "2">>,
      <<"c", "r", "o", "s", "s">>,
      <<"r", "e", "s", "i", "z", "e", "_">>,
      <<"z", "z">>,
      <<"c", "l", "i", "k">>,
      <<"b", "o", "x", "z", "o", "o", "m">>,
      <<"X", "p", "a", "n">>,
      <<"p", "o", "l", "y">>,
      <<"p", "r", "e", "v", "i", "e", "w", "s", "a", "v">>
    }

\* The names _tool_from_string is called with.
ToolNames == KnownKeys \cup UnknownNames

\* The identities of the Tool instances in a result of _tool_from_string.
LiveTools(r) == IF r.outcome = "return" THEN {r.value.id} ELSE {}

InitToolFromString ==
    /\ fn = ""
    /\ args \in [name : ToolNames]
    /\ ret = NoCall
    /\ prev = NoCall
    /\ kwargs = None
    /\ source = None
    /\ toolbar = None
    /\ warned = <<>>
    /\ figure = None
    /\ calls = <<>>

\* A call _tool_from_string(name); the second call of a behaviour repeats
\* the first, whose result is still referenced (prev).
ToolFromString ==
    /\ prev = NoCall
    /\ \E keys \in KeyOrders :
         ret' = _tool_from_string(args.name, keys, NewIds(LiveTools(ret), 1)[1])
    /\ fn' = "_tool_from_string"
    /\ prev' = ret
    /\ UNCHANGED <<args, kwargs, source, toolbar, warned, figure, calls>>

SpecToolFromString == InitToolFromString /\ [][ToolFromString]_vars

\* The registry keys in sorted order.
IsSortedKeyList(s) ==
    /\ Range(s) = KnownKeys
    /\ \A i \in 1..Len(s) : \A j \in 1..Len(s) : i < j => StrLess(s[i], s[j])

\* C1: for every name that is no key of the registry, _tool_from_string
\* returns no tool but raises an error that carries the name and a
\* suggestion list; the list is not empty and holds registry keys only: the
\* close matches of the lower-cased name when there are any, and all the keys
\* in sorted order otherwise; a second call with the same name raises the
\* same error with the same list.
C1_UnknownNameRaisesWithSuggestions ==
    (fn = "_tool_from_string" /\ args.name \notin KnownKeys) =>
        /\ ret.outcome = "raise"
        /\ ret.error.name = args.name
        /\ ret.error.tools # <<>>
        /\ Range(ret.error.tools) \subseteq KnownKeys
        /\ LET close == get_close_matches(lower(args.name),
                            [i \in 1..Len(_known_tools) |-> _known_tools[i].key])
           IN  IF close # <<>> THEN ret.error.tools = close
               ELSE IsSortedKeyList(ret.error.tools)
        /\ prev.outcome # "none" => prev = ret

\* C1 happens: a name with capital letters that is no key, called twice, got
\* the close matches of its lower-cased form.
C1_Witness ==
    /\ fn = "_tool_from_string"
    /\ args.name \notin KnownKeys
    /\ lower(args.name) # args.name
    /\ ret.outcome = "raise"
    /\ ret.error.text = "similar"
    /\ prev.outcome = "raise"

(***************************************************************************)
(* _process_tools_arg                                                      *)
(***************************************************************************)

\* A Python str value and an int value, as elements of a list argument.
Str(chars) == [kind |-> "str", chars |-> chars]
Num(n) == [kind |-> "int", n |-> n]

\* A list (or tuple) argument.
List(items) == [kind |-> "list", items |-> items]

\* Python values: a tuple, a set, a dict of one item, a numpy array with its
\* shape and its elements in row order.
Tuple(items) == [kind |-> "tuple", items |-> items]
Set(elems) == [kind |-> "set", elems |-> elems]
Dict(key, val) == [kind |-> "dict", key |-> key, val |-> val]
NdArray(shape, flat) == [kind |-> "ndarray", shape |-> shape, flat |-> flat]

\* \s of the regular expression, and the whitespace str.strip() removes.
IsSpace(c) == c \in {" ", "\t"}

\* str.strip()
RECURSIVE strip(_)
strip(s) ==
    IF s = <<>> THEN s
    ELSE IF IsSpace(s[1]) THEN strip(Tail(s))
    ELSE IF IsSpace(s[Len(s)]) THEN strip(SubSeq(s, 1, Len(s) - 1))
    ELSE s

\* re.split(r"\s*,\s*", s): the leftmost match starts at the whitespace run
\* before the first comma and ends with the whitespace run after it; the
\* text before the match is a piece, and the split goes on after the match.
RECURSIVE re_split(_)
re_split(s) ==
    LET commas == {i \in 1..Len(s) : s[i] = ","}
    IN  IF commas = {} THEN <<s>>
        ELSE LET c == CHOOSE i \in commas : \A h \in commas : i <= h
                 start == CHOOSE i \in 1..c :
                              /\ \A h \in i..(c - 1) : IsSpace(s[h])
                              /\ i = 1 \/ ~IsSpace(s[i - 1])
                 stop == CHOOSE e \in c..Len(s) :
                              /\ \A h \in (c + 1)..e : IsSpace(s[h])
                              /\ e = Len(s) \/ ~IsSpace(s[e + 1])
             IN  <<SubSeq(s, 1, start - 1)>>
                 \o re_split(SubSeq(s, stop + 1, Len(s)))

\* The first loop (lines 325-333) over a list argument: Tool instances go to
\* tool_objs, strings are joined into temp_tool_str, each followed by a
\* comma; anything else raises.  st is [tool_objs, temp_tool_str, raised].
RECURSIVE CollectTools(_, _)
CollectTools(items, st) ==
    IF items = <<>> THEN st
    ELSE IF Head(items).kind = "Tool"
    THEN CollectTools(Tail(items),
             [st EXCEPT !.tool_objs = Append(@, Head(items))])
    ELSE IF Head(items).kind = "str"
    THEN CollectTools(Tail(items),
             [st EXCEPT !.temp_tool_str = @ \o Head(items).chars \o <<",">>])
    ELSE [st EXCEPT !.raised = TRUE]

\* ResolveTools putting each resolved tool first in tool_objs.
RECURSIVE ResolveToolsInsertFirst(_, _, _, _)
ResolveToolsInsertFirst(names, keys, ids, st) ==
    IF names = <<>> THEN st
    ELSE IF Head(names) = <<>>
    THEN ResolveToolsInsertFirst(Tail(names), keys, ids, st)
    ELSE The({ IF r.outcome = "raise"
               THEN [st EXCEPT !.raised = r]
               ELSE ResolveToolsInsertFirst(Tail(names), keys, Tail(ids),
                        [st EXCEPT
                           !.tool_objs = <<r.value>> \o @,
                           !.tool_map = (Head(names) :> r.value) @@ @]) :
               r \in {_tool_from_string(Head(names), keys, Head(ids))} })

\* The second loop (lines 335-342) over the split names: blank names are
\* skipped, every other name is resolved, appended to tool_objs and entered
\* in tool_map; an unknown name ends the loop with its error.  ids are the
\* identities of the objects the constructors create, in order.
RECURSIVE ResolveTools(_, _, _, _)
ResolveTools(names, keys, ids, st) ==
    IF names = <<>> THEN st
    ELSE IF Head(names) = <<>>
    THEN ResolveTools(Tail(names), keys, ids, st)
    ELSE The({ IF r.outcome = "raise"
               THEN [st EXCEPT !.raised = r]
               ELSE ResolveTools(Tail(names), keys, Tail(ids),
                        [st EXCEPT
                           !.tool_objs = Append(@, r.value),
                           !.tool_map = (Head(names) :> r.value) @@ @]) :
               r \in {_tool_from_string(Head(names), keys, Head(ids))} })

\* RepeatedTools grouping the class names without sorting them first: only
\* neighbours in tool_objs form a group.
RepeatedToolsUnsorted(tool_objs) ==
    {c \in {tool_objs[i].cls : i \in 1..Len(tool_objs)} :
        \E i \in 1..(Len(tool_objs) - 1) :
            tool_objs[i].cls = c /\ tool_objs[i + 1].cls = c}

\* The class names that occur more than once in tool_objs (lines 344-347).
\* The warning joins them in sorted order, which the set determines.
RepeatedTools(tool_objs) ==
    {c \in {tool_objs[i].cls : i \in 1..Len(tool_objs)} :
        Cardinality({i \in 1..Len(tool_objs) : tool_objs[i].cls = c}) > 1}

\* What the first loop leaves behind: tool_objs, the string to split and
\* whether it raised.
FirstLoop(tools) ==
    IF tools.kind = "list"
    THEN CollectTools(tools.items,
             [tool_objs |-> <<>>, temp_tool_str |-> <<>>, raised |-> FALSE])
    ELSE [tool_objs |-> <<>>, temp_tool_str |-> tools.chars, raised |-> FALSE]

\* Lines 344-352: the warning, when a class is repeated, and the result.
WarnAndReturn(tool_objs, tool_map) ==
    [ret |-> Return([tool_objs |-> tool_objs, tool_map |-> tool_map]),
     warned |-> IF RepeatedTools(tool_objs) # {}
                THEN <<[category |-> "UserWarning",
                        message |-> "are being repeated",
                        repeated_tools |-> RepeatedTools(tool_objs)]>>
                ELSE <<>>]

\* _process_tools_arg(plot, tools): [ret, warned].  The plot is not used.
_process_tools_arg(tools, keys, ids) ==
    The({ IF first.raised
          THEN [ret |-> Raise([type |-> "ValueError",
                               message |-> "tool should be a string or an instance of Tool class"]),
                warned |-> <<>>]
          ELSE The({ IF second.raised # NoCall
                     THEN [ret |-> second.raised, warned |-> <<>>]
                     ELSE WarnAndReturn(second.tool_objs, second.tool_map) :
                     second \in
                       { ResolveTools(re_split(strip(first.temp_tool_str)),
                             keys, ids,
                             [tool_objs |-> first.tool_objs,
                              tool_map |-> <<>>, raised |-> NoCall]) } }) :
          first \in {FirstLoop(tools)} })

\* The most entries a tools argument has.
MaxTools == 3

\* The segments a tools string is joined from with commas.
ToolSegments ==
    {
      <<"p", "a", "n">>,
      <<" ", "t", "a", "p">>,
      <<"c", "l", "i", "c", "k">>,
      <<>>,
      <<"P", "a", "n">>
    }

\* Tool instances the caller built.
UserTools ==
    { Tool(1, "PanTool", <<<<"dimensions", <<"width">>>>>>),
      Tool(2, "HoverTool", <<>>) }

\* The elements a tools list is made of.
ToolItems ==
    UserTools
    \cup { Str(<<"p", "a", "n">>),
           Str(<<"t", "a", "p", ",", "h", "o", "v", "e", "r">>),
           Num(5) }

\* ",".join(segs)
RECURSIVE Join(_)
Join(segs) ==
    IF Len(segs) = 1 THEN segs[1]
    ELSE segs[1] \o <<",">> \o Join(Tail(segs))

\* The tools arguments _process_tools_arg is called with.
ToolsArgs ==
    UNION { {Str(Join(segs)) : segs \in [1..n -> ToolSegments]}
            \cup {List(items) : items \in [1..n -> ToolItems]} : n \in 1..MaxTools }
    \cup {List(<<>>)}

\* The identities of the Tool instances in a tools argument and in a result
\* of _process_tools_arg.
ToolsIn(tools) ==
    IF tools.kind = "list"
    THEN {tools.items[i].id :
            i \in {h \in 1..Len(tools.items) : tools.items[h].kind = "Tool"}}
    ELSE {}

ToolsOut(r) ==
    IF r.outcome = "return"
    THEN {r.value.tool_objs[i].id : i \in 1..Len(r.value.tool_objs)}
    ELSE {}

InitProcessToolsArg ==
    /\ fn = ""
    /\ args \in [tools : ToolsArgs]
    /\ ret = NoCall
    /\ prev = NoCall
    /\ kwargs = None
    /\ source = None
    /\ toolbar = None
    /\ warned = <<>>
    /\ figure = None
    /\ calls = <<>>

\* A call _process_tools_arg(plot, tools); the second call of a behaviour
\* repeats the first, whose result is still referenced (prev).
ProcessToolsArg ==
    /\ prev = NoCall
    /\ \E keys \in KeyOrders :
       \E ids \in {NewIds(ToolsIn(args.tools) \cup ToolsOut(ret), 2 * MaxTools)} :
       \E r \in {_process_tools_arg(args.tools, keys, ids)} :
           /\ ret' = r.ret
           /\ warned' = r.warned
    /\ fn' = "_process_tools_arg"
    /\ prev' = ret
    /\ UNCHANGED <<args, kwargs, source, toolbar, figure, calls>>

SpecProcessToolsArg == InitProcessToolsArg /\ [][ProcessToolsArg]_vars

\* The class and constructor arguments of a tool, and those of the tool a
\* registry name stands for.
Variant(tool) == <<tool.cls, tool.kw>>

NameVariant(name) ==
    LET entry == Registry(name)
        tool_fn == IF entry.alias # <<>> THEN Registry(entry.alias) ELSE entry
    IN  <<tool_fn.cls, tool_fn.kw>>

\* The names of a string of a tools argument: its non-blank segments.
NamesOf(chars) ==
    SelectSeq(re_split(strip(chars)), LAMBDA name : name # <<>>)

\* The entries of a tools argument in the order they appear in it: Tool
\* instances and names.
RECURSIVE EntriesOfItems(_)
EntriesOfItems(items) ==
    IF items = <<>> THEN <<>>
    ELSE (IF Head(items).kind = "Tool" THEN <<Head(items)>>
          ELSE IF Head(items).kind = "str"
          THEN [i \in 1..Len(NamesOf(Head(items).chars)) |->
                   Str(NamesOf(Head(items).chars)[i])]
          ELSE <<Head(items)>>)
         \o EntriesOfItems(Tail(items))

EntriesOf(tools) ==
    IF tools.kind = "list" THEN EntriesOfItems(tools.items)
    ELSE EntriesOfItems(<<tools>>)

\* tool_objs holds, entry by entry, the instance passed in or a tool of the
\* variant the name stands for.
MatchesEntries(tool_objs, entries) ==
    /\ Len(tool_objs) = Len(entries)
    /\ \A i \in 1..Len(entries) :
          IF entries[i].kind = "Tool" THEN tool_objs[i] = entries[i]
          ELSE Variant(tool_objs[i]) = NameVariant(entries[i].chars)

\* Two calls with the same argument: the same variants in the same order,
\* and no tool of both lists but the instances passed in.
SameVariantsNoSharing ==
    prev.outcome # "none" =>
        /\ prev.outcome = ret.outcome
        /\ ret.outcome = "return" =>
              /\ [i \in 1..Len(ret.value.tool_objs) |-> Variant(ret.value.tool_objs[i])]
                 = [i \in 1..Len(prev.value.tool_objs) |-> Variant(prev.value.tool_objs[i])]
              /\ (ToolsOut(ret) \cap ToolsOut(prev)) \subseteq ToolsIn(args.tools)

\* C2 as claimed: the returned list holds one tool per non-blank entry in the
\* order of the entries, for a string and for a sequence mixing names and
\* Tool instances alike; two parses of the same argument give the same
\* variants in the same order and share no instance they constructed.
C2_OrderOfInput ==
    (fn = "_process_tools_arg" /\ ret.outcome = "return") =>
        /\ MatchesEntries(ret.value.tool_objs, EntriesOf(args.tools))
        /\ SameVariantsNoSharing

\* C2 as the code has it: the returned list holds the Tool instances of the
\* argument first, unchanged and in their order, and after them one tool per
\* non-blank name in the order of the names; for a string argument this is
\* the order of its entries.  Two parses of the same argument give the same
\* variants in the same order and share no instance they constructed.
C2_InstancesThenNames ==
    (fn = "_process_tools_arg" /\ ret.outcome = "return") =>
        /\ LET entries == EntriesOf(args.tools)
           IN  MatchesEntries(ret.value.tool_objs,
                   SelectSeq(entries, LAMBDA e : e.kind = "Tool")
                   \o SelectSeq(entries, LAMBDA e : e.kind = "str"))
        /\ SameVariantsNoSharing

\* C2 happens: a list with a name before a Tool instance was parsed twice.
C2_Witness ==
    /\ fn = "_process_tools_arg"
    /\ args.tools.kind = "list"
    /\ ret.outcome = "return"
    /\ prev.outcome = "return"
    /\ \E i \in 1..Len(args.tools.items) : \E j \in 1..Len(args.tools.items) :
          /\ i < j
          /\ args.tools.items[i].kind = "str"
          /\ NamesOf(args.tools.items[i].chars) # <<>>
          /\ args.tools.items[j].kind = "Tool"

\* Every element of the argument is a Tool instance or a string, and every
\* name is a key of the registry.
Resolvable(tools) ==
    \A i \in 1..Len(EntriesOf(tools)) :
        \/ EntriesOf(tools)[i].kind = "Tool"
        \/ /\ EntriesOf(tools)[i].kind = "str"
           /\ EntriesOf(tools)[i].chars \in KnownKeys

\* C8: _process_tools_arg warns of repeated tools exactly when two of the
\* resolved tools, constructed from names or passed in, have the same class;
\* the warning is one warning and no error: the call returns the whole tool
\* list, repeated tools included, and the map from each name to its tool.
C8_DuplicateWarningNonFatal ==
    fn = "_process_tools_arg" =>
        /\ Resolvable(args.tools) =>
              /\ ret.outcome = "return"
              /\ Len(ret.value.tool_objs) = Len(EntriesOf(args.tools))
              /\ DOMAIN ret.value.tool_map
                 = {e.chars : e \in {x \in Range(EntriesOf(args.tools)) : x.kind = "str"}}
              /\ \A name \in DOMAIN ret.value.tool_map :
                    /\ ret.value.tool_map[name] \in Range(ret.value.tool_objs)
                    /\ Variant(ret.value.tool_map[name]) = NameVariant(name)
        /\ ret.outcome = "return" =>
              /\ Len(warned) <= 1
              /\ warned # <<>> <=>
                    \E i \in 1..Len(ret.value.tool_objs) :
                    \E j \in 1..Len(ret.value.tool_objs) :
                        /\ i # j
                        /\ ret.value.tool_objs[i].cls = ret.value.tool_objs[j].cls
        /\ ret.outcome = "raise" => warned = <<>>

\* C8 happens: a Tool instance and a name of the same class, apart in the
\* list, were resolved, and the call warned and returned all three tools.
C8_Witness ==
    /\ fn = "_process_tools_arg"
    /\ ret.outcome = "return"
    /\ warned # <<>>
    /\ Len(ret.value.tool_objs) = 3
    /\ ret.value.tool_objs[1].cls = ret.value.tool_objs[3].cls
    /\ ret.value.tool_objs[1].cls # ret.value.tool_objs[2].cls
    /\ ret.value.tool_objs[1] \in UserTools
    /\ ret.value.tool_objs[3] \notin UserTools

(***************************************************************************)
(* _process_active_tools (lines 355-390)                                   *)
(*                                                                         *)
(* The toolbar is an object with the three attributes the function         *)
(* assigns.  The three roles are handled one after the other, by the same  *)
(* three-way branch; an exception ends the call where it is raised.        *)
(***************************************************************************)

\* The roles in the order the function handles them.
Roles == <<"active_drag", "active_scroll", "active_tap">>

\* Whether Python can hash the value: a list, a set, a dict and an array
\* cannot be a dict key, and a tuple can when all its elements can.
RECURSIVE Hashable(_)
Hashable(v) ==
    IF v.kind \in {"list", "set", "dict", "ndarray"} THEN FALSE
    ELSE IF v.kind = "tuple" THEN \A i \in 1..Len(v.items) : Hashable(v.items[i])
    ELSE TRUE

\* One role's branch (lines 371-376, and the same at 378-383 and 385-390);
\* st = [toolbar, raised], and nothing happens once an exception is raised.
\* `value in tool_map` hashes the value, which raises TypeError for a list,
\* a set or a dict.  The message is made with `"... %r ..." % value`, which takes
\* a tuple as the arguments of the format: a tuple of one element gives the
\* message for that element, and any other tuple raises TypeError.
SetActive(role, value, tool_map, st) ==
    IF st.raised # NoCall THEN st
    ELSE IF value \in {Str(<<"a", "u", "t", "o">>), None} \/ value.kind = "Tool"
    THEN [st EXCEPT !.toolbar[role] = value]
    ELSE IF ~Hashable(value)
    THEN [st EXCEPT !.raised = Raise([type |-> "TypeError",
                                      message |-> "unhashable type"])]
    ELSE IF value.kind = "str" /\ value.chars \in DOMAIN tool_map
    THEN [st EXCEPT !.toolbar[role] = tool_map[value.chars]]
    ELSE IF value.kind = "tuple" /\ Len(value.items) = 0
    THEN [st EXCEPT !.raised =
              Raise([type |-> "TypeError",
                     message |-> "not enough arguments for format string"])]
    ELSE IF value.kind = "tuple" /\ Len(value.items) > 1
    THEN [st EXCEPT !.raised =
              Raise([type |-> "TypeError",
                     message |-> "not all arguments converted during string formatting"])]
    ELSE [st EXCEPT !.raised =
              Raise([type |-> "ValueError",
                     message |-> "Got unknown value, which was not a string supplied in 'tools' argument",
                     role |-> role,
                     value |-> IF value.kind = "tuple" THEN value.items[1]
                               ELSE value])]

\* _process_active_tools(toolbar, tool_map, active_drag, active_scroll,
\* active_tap): [toolbar, raised], raised = NoCall when the call returns None.
_process_active_tools(tb, tool_map, active_drag, active_scroll, active_tap) ==
    The({ SetActive("active_tap", active_tap, tool_map, scroll) :
          scroll \in
            { SetActive("active_scroll", active_scroll, tool_map, drag) :
              drag \in { SetActive("active_drag", active_drag, tool_map,
                                   [toolbar |-> tb, raised |-> NoCall]) } } })

\* The tools arguments whose tool_map the calls are given.
ActiveToolsTools ==
    { <<"p", "a", "n", ",", "r", "e", "s", "e", "t">>,
      <<"p", "a", "n", ",", "w", "h", "e", "e", "l", "_", "z", "o", "o", "m",
        ",", "t", "a", "p">>,
      <<>> }

\* The tool_map of _process_tools_arg for each of them.
ToolMaps ==
    { _process_tools_arg(Str(chars), _known_tools_keys, NewIds({1, 2}, 3)).ret.value.tool_map :
        chars \in ActiveToolsTools, _known_tools_keys \in KeyOrders }

\* The values given for a role.
RoleValues ==
    { Str(<<"a", "u", "t", "o">>), None, Tool(1, "PanTool", <<>>),
      Str(<<"p", "a", "n">>), Str(<<"r", "e", "s", "e", "t">>),
      Str(<<"b", "o", "g", "u", "s">>), Str(<<"A", "u", "t", "o">>),
      Num(5), List(<<Str(<<"p", "a", "n">>)>>), Set({Num(1), Num(2)}),
      Tuple(<<>>), Tuple(<<Str(<<"p", "a", "n">>)>>), Tuple(<<Num(1), Num(2)>>) }

\* A toolbar as constructed, and one whose roles were set before.
Toolbars ==
    { [role \in Range(Roles) |-> Str(<<"a", "u", "t", "o">>)],
      [role \in Range(Roles) |-> Tool(2, "HoverTool", <<>>)] }

InitProcessActiveTools ==
    /\ fn = ""
    /\ args \in [toolbar : Toolbars, tool_map : ToolMaps,
                 active_drag : RoleValues, active_scroll : RoleValues,
                 active_tap : RoleValues]
    /\ toolbar = args.toolbar
    /\ ret = NoCall
    /\ prev = NoCall
    /\ kwargs = None
    /\ source = None
    /\ warned = <<>>
    /\ figure = None
    /\ calls = <<>>

ProcessActiveTools ==
    /\ prev = NoCall
    /\ \E r \in {_process_active_tools(toolbar, args.tool_map, args.active_drag,
                                       args.active_scroll, args.active_tap)} :
           /\ toolbar' = r.toolbar
           /\ ret' = IF r.raised = NoCall THEN Return(None) ELSE r.raised
    /\ fn' = "_process_active_tools"
    /\ prev' = ret
    /\ UNCHANGED <<args, kwargs, source, warned, figure, calls>>

SpecProcessActiveTools == InitProcessActiveTools /\ [][ProcessActiveTools]_vars

\* One of the four kinds of value a role accepts.
Accepted(v, tool_map) ==
    \/ v = Str(<<"a", "u", "t", "o">>)
    \/ v = None
    \/ v.kind = "Tool"
    \/ v.kind = "str" /\ v.chars \in DOMAIN tool_map

\* What an accepted value sets the role to.
RoleSetting(v, tool_map) ==
    IF v.kind = "str" /\ v # Str(<<"a", "u", "t", "o">>)
    THEN tool_map[v.chars] ELSE v

\* The error a value that is not accepted raises for its role: TypeError for
\* a list or a set, and for a tuple that has not one element; ValueError
\* naming the role and the value otherwise, the element for a tuple of one.
RoleError(role, v) ==
    IF v.kind \in {"list", "set"} \/ (v.kind = "tuple" /\ Len(v.items) # 1)
    THEN ret.outcome = "raise" /\ ret.error.type = "TypeError"
    ELSE /\ ret.outcome = "raise"
         /\ ret.error.type = "ValueError"
         /\ ret.error.role = role
         /\ ret.error.value = IF v.kind = "tuple" THEN v.items[1] ELSE v

\* C3: for each of the three roles, a value that is not 'auto',
\* None, a Tool or a key of the tool map raises an error naming that role and
\* value, and an accepted value raises nothing and sets the toolbar's role to
\* the value or to the mapped tool.
C3_EachRoleOnItsOwn ==
    fn = "_process_active_tools" =>
        \A i \in 1..3 :
            IF Accepted(args[Roles[i]], args.tool_map)
            THEN /\ ret = Return(None)
                 /\ toolbar[Roles[i]] = RoleSetting(args[Roles[i]], args.tool_map)
            ELSE /\ ret.outcome = "raise"
                 /\ ret.error.type = "ValueError"
                 /\ ret.error.role = Roles[i]
                 /\ ret.error.value = args[Roles[i]]

\* What the calls do: the roles are handled in the order active_drag,
\* active_scroll, active_tap.  The first role whose value is not 'auto', None,
\* a Tool or a key of the tool map raises: ValueError naming that role and
\* value, or TypeError when the value is unhashable or a tuple that has not
\* one element.  The roles before it are set to the
\* value, or to the mapped tool for a key, and the roles after it keep what
\* the toolbar had.  When all three values are accepted the call returns None
\* and sets all three roles.
C3_FirstOffendingRoleRaises ==
    fn = "_process_active_tools" =>
        LET bad == {i \in 1..3 : ~Accepted(args[Roles[i]], args.tool_map)}
            first == IF bad = {} THEN 4
                     ELSE CHOOSE i \in bad : \A j \in bad : i <= j
        IN  /\ \A i \in 1..3 :
                 toolbar[Roles[i]] =
                     IF i < first
                     THEN RoleSetting(args[Roles[i]], args.tool_map)
                     ELSE args.toolbar[Roles[i]]
            /\ IF bad = {} THEN ret = Return(None)
               ELSE RoleError(Roles[first], args[Roles[first]])

\* A call with the tuple (1, 2) for active_drag and None for the other
\* roles: it raised the TypeError of the string formatting, which names
\* neither the role nor the value, and left the toolbar as it was.
C3_Witness ==
    /\ fn = "_process_active_tools"
    /\ args.active_drag = Tuple(<<Num(1), Num(2)>>)
    /\ args.active_scroll = None
    /\ args.active_tap = None
    /\ ret = Raise([type |-> "TypeError",
                    message |-> "not all arguments converted during string formatting"])
    /\ toolbar = args.toolbar

(***************************************************************************)
(* get_default_color (lines 27-46)                                         *)
(*                                                                         *)
(* A plot is its list of renderers, each with the name of its view model.  *)
(***************************************************************************)

\* colors, the palette of lines 28-39.
colors ==
    <<
       Str(<<"#", "1", "f", "7", "7", "b", "4">>),
       Str(<<"#", "f", "f", "7", "f", "0", "e">>),
       Str(<<"#", "f", "f", "b", "b", "7", "8">>),
       Str(<<"#", "2", "c", "a", "0", "2", "c">>),
       Str(<<"#", "9", "8", "d", "f", "8", "a">>),
       Str(<<"#", "d", "6", "2", "7", "2", "8">>),
       Str(<<"#", "f", "f", "9", "8", "9", "6">>),
       Str(<<"#", "9", "4", "6", "7", "b", "d">>),
       Str(<<"#", "c", "5", "b", "0", "d", "5">>),
       Str(<<"#", "8", "c", "5", "6", "4", "b">>),
       Str(<<"#", "c", "4", "9", "c", "9", "4">>),
       Str(<<"#", "e", "3", "7", "7", "c", "2">>),
       Str(<<"#", "f", "7", "b", "6", "d", "2">>),
       Str(<<"#", "7", "f", "7", "f", "7", "f">>),
       Str(<<"#", "b", "c", "b", "d", "2", "2">>),
       Str(<<"#", "d", "b", "d", "b", "8", "d">>),
       Str(<<"#", "1", "7", "b", "e", "c", "f">>),
       Str(<<"#", "9", "e", "d", "a", "e", "5">>)
    >>

\* A renderer of a plot: a GlyphRenderer, an axis, a grid, a legend.
Renderer(view_model) == [kind |-> "Renderer", view_model |-> view_model]

\* A plot with the given renderers.  A Plot object is always true.
Plot(renderers) == [kind |-> "Plot", renderers |-> renderers]

\* get_default_color(plot=None).  colors[num_renderers] raises IndexError
\* when num_renderers is not below len(colors).
get_default_color(plot) ==
    IF plot # None
    THEN The({ IF num_renderers < Len(colors)
               THEN Return(colors[num_renderers + 1])
               ELSE Raise([type |-> "IndexError",
                           message |-> "list index out of range"]) :
               num_renderers \in
                 { Len(SelectSeq(plot.renderers,
                          LAMBDA x : x.view_model = "GlyphRenderer")) } })
    ELSE Return(colors[1])

\* The most renderers of a plot whose renderers come in every order.
MaxMixed == 4

\* The most GlyphRenderers of a plot.
MaxGlyphRenderers == 19

\* The view models of the renderers of the plots.
ViewModels == {"GlyphRenderer", "LinearAxis", "Legend"}

\* n renderers of one view model.
Repeat(view_model, n) == [i \in 1..n |-> Renderer(view_model)]

\* The plots: few renderers in every order, and up to MaxGlyphRenderers
\* GlyphRenderers after the axes and before a legend.
Plots ==
    { Plot(renderers) :
        renderers \in UNION { [1..n -> {Renderer(vm) : vm \in ViewModels}] :
                                n \in 0..MaxMixed } }
    \cup
    { Plot(Repeat("LinearAxis", a) \o Repeat("GlyphRenderer", g)
           \o Repeat("Legend", l)) :
        a \in {0, 2}, g \in 0..MaxGlyphRenderers, l \in 0..1 }

InitGetDefaultColor ==
    /\ fn = ""
    /\ args \in [plot : {None} \cup Plots]
    /\ ret = NoCall
    /\ prev = NoCall
    /\ kwargs = None
    /\ source = None
    /\ toolbar = None
    /\ warned = <<>>
    /\ figure = None
    /\ calls = <<>>

GetDefaultColor ==
    /\ prev = NoCall
    /\ ret' = get_default_color(args.plot)
    /\ fn' = "get_default_color"
    /\ prev' = ret
    /\ UNCHANGED <<args, kwargs, source, toolbar, warned, figure, calls>>

SpecGetDefaultColor == InitGetDefaultColor /\ [][GetDefaultColor]_vars

\* The number of GlyphRenderers of a plot; 0 without a plot.
NumGlyphRenderers(plot) ==
    IF plot = None THEN 0
    ELSE Cardinality({i \in 1..Len(plot.renderers) :
                        plot.renderers[i].view_model = "GlyphRenderer"})

\* C7: for every plot, with n GlyphRenderers, get_default_color returns the
\* palette entry at position n, wrapping around the palette length, and never
\* fails; with no plot it returns the first palette entry.
C7_RotatesThroughPalette ==
    fn = "get_default_color" =>
        ret = Return(colors[(NumGlyphRenderers(args.plot) % Len(colors)) + 1])

(***************************************************************************)
(* _pop_colors_and_alpha (lines 74-101)                                    *)
(*                                                                         *)
(* A dict is a function from its keys, which are strings (sequences of     *)
(* characters, since the code builds them with +), to its values.  A glyph *)
(* class is the set of the names of its properties and, for its dataspecs, *)
(* the kind of each.                                                       *)
(***************************************************************************)

\* A float, in tenths: 1.0 is Float(10) and 0.1 is Float(1).
Float(tenths) == [kind |-> "float", tenths |-> tenths]

\* d.get(key, default), which is also what d.pop(key, default) returns.
Get(d, key, default) == IF key \in DOMAIN d THEN d[key] ELSE default

\* The dict d.pop(key, default) leaves behind.
Del(d, key) == [k \in DOMAIN d \ {key} |-> d[k]]

\* The dict after d[key] = value.
Put(d, key, value) == [k \in DOMAIN d \cup {key} |-> IF k = key THEN value ELSE d[k]]

\* A glyph class: properties() and dataspecs_with_props().
GlyphClass(name, properties, dataspecs) ==
    [kind |-> "glyphclass", name |-> name, properties |-> properties,
     dataspecs |-> dataspecs]

\* The names of lines 86-97.
s_color == <<"c", "o", "l", "o", "r">>
s_alpha == <<"a", "l", "p", "h", "a">>
s_fill_color == <<"f", "i", "l", "l", "_", "c", "o", "l", "o", "r">>
s_line_color == <<"l", "i", "n", "e", "_", "c", "o", "l", "o", "r">>
s_text_color == <<"t", "e", "x", "t", "_", "c", "o", "l", "o", "r">>
s_fill_alpha == <<"f", "i", "l", "l", "_", "a", "l", "p", "h", "a">>
s_line_alpha == <<"l", "i", "n", "e", "_", "a", "l", "p", "h", "a">>
s_text_alpha == <<"t", "e", "x", "t", "_", "a", "l", "p", "h", "a">>

\* The loop body of lines 87-89 and 97-99 with the explicit value passed
\* over: the entry is always the default.
PopArgDefaultOnly(st, properties, argname, prefix, default) ==
    IF argname \notin properties THEN st
    ELSE [kwargs |-> Del(st.kwargs, prefix \o argname),
          result |-> Put(st.result, argname, default)]

\* The loop body of lines 87-89 and 97-99, and lines 93-94:
\* result[argname] = kwargs.pop(prefix + argname, default), for a property
\* the glyph class has.  st = [kwargs, result].
PopArg(st, properties, argname, prefix, default) ==
    IF argname \notin properties THEN st
    ELSE [kwargs |-> Del(st.kwargs, prefix \o argname),
          result |-> Put(st.result, argname,
                         Get(st.kwargs, prefix \o argname, default))]

\* _pop_colors_and_alpha(glyphclass, kwargs, prefix, default_alpha):
\* [kwargs, result], the dict it returns and the kwargs it leaves.
_pop_colors_and_alpha(glyphclass, kws, prefix, default_alpha) ==
    LET color == Get(kws, prefix \o s_color, get_default_color(None).value)
        fill == PopArg([kwargs |-> Del(kws, prefix \o s_color), result |-> <<>>],
                       glyphclass.properties, s_fill_color, prefix, color)
        line == PopArg(fill, glyphclass.properties, s_line_color, prefix, color)
        text == PopArg(line, glyphclass.properties, s_text_color, prefix,
                       Str(<<"b", "l", "a", "c", "k">>))
        alpha == Get(text.kwargs, prefix \o s_alpha, default_alpha)
        fill_a == PopArg([text EXCEPT !.kwargs = Del(@, prefix \o s_alpha)],
                         glyphclass.properties, s_fill_alpha, prefix, alpha)
        line_a == PopArg(fill_a, glyphclass.properties, s_line_alpha, prefix,
                         alpha)
    IN  PopArg(line_a, glyphclass.properties, s_text_alpha, prefix, alpha)

\* The names of some other properties of the glyph classes.
s_x == <<"x">>
s_y == <<"y">>
s_size == <<"s", "i", "z", "e">>
s_text == <<"t", "e", "x", "t">>
s_image == <<"i", "m", "a", "g", "e">>
s_line_dash == <<"l", "i", "n", "e", "_", "d", "a", "s", "h">>

\* The kinds of dataspec of a list of names.
Specs(names, descriptor) == [n \in names |-> descriptor]

\* Glyph classes: a marker with fill and line properties, a line, a text and
\* an image; line_dash is a property that is no dataspec.
Circle ==
    GlyphClass("Circle",
        {s_x, s_y, s_size, s_fill_color, s_line_color, s_fill_alpha,
         s_line_alpha, s_line_dash},
        Specs({s_x, s_y, s_size, s_fill_alpha, s_line_alpha}, "NumberSpec")
        @@ Specs({s_fill_color, s_line_color}, "ColorSpec"))
Line ==
    GlyphClass("Line",
        {s_x, s_y, s_line_color, s_line_alpha, s_line_dash},
        Specs({s_x, s_y, s_line_alpha}, "NumberSpec")
        @@ Specs({s_line_color}, "ColorSpec"))
Text ==
    GlyphClass("Text",
        {s_x, s_y, s_text, s_text_color, s_text_alpha},
        Specs({s_x, s_y, s_text_alpha}, "NumberSpec")
        @@ Specs({s_text}, "StringSpec") @@ Specs({s_text_color}, "ColorSpec"))
Image ==
    GlyphClass("Image", {s_image, s_x, s_y},
        Specs({s_image, s_x, s_y}, "NumberSpec"))

GlyphClasses == {Circle, Line, Text, Image}

\* The prefixes of lines 434-449.
Prefixes ==
    { <<>>, <<"n", "o", "n", "s", "e", "l", "e", "c", "t", "i", "o", "n", "_">>, <<"s", "e", "l", "e", "c", "t", "i", "o", "n", "_">>, <<"h", "o", "v", "e", "r", "_">> }

\* The six entries a result can have.
ColorAlphaNames ==
    {s_fill_color, s_line_color, s_text_color,
     s_fill_alpha, s_line_alpha, s_text_alpha}

\* The most keys of the kwargs of a call.
MaxKwargs == 3

\* The keys of the kwargs of a call with a prefix: the shortcuts and the six
\* names with the prefix, a key that is none of them and a key of another
\* prefix.
ColorKeys(prefix) ==
    {prefix \o n : n \in ColorAlphaNames \cup {s_color, s_alpha}}
    \cup {s_size}
    \cup {IF prefix = <<>> THEN <<"n", "o", "n", "s", "e", "l", "e", "c", "t", "i", "o", "n", "_">> \o s_fill_color
          ELSE s_fill_color}

\* The values of the keys.
ColorValues == {Str(<<"r", "e", "d">>), Float(5), None}

\* The dicts with at most n of the keys and with the values.
Dicts(keys, values, n) ==
    UNION { [ks -> values] : ks \in {s \in SUBSET keys : Cardinality(s) <= n} }

InitPopColorsAndAlpha ==
    /\ fn = ""
    /\ \E glyphclass \in GlyphClasses, prefix \in Prefixes,
          default_alpha \in {Float(10), Float(1)} :
       \E kws \in Dicts(ColorKeys(prefix), ColorValues, MaxKwargs) :
           /\ args = [glyphclass |-> glyphclass, kwargs |-> kws,
                      prefix |-> prefix, default_alpha |-> default_alpha]
           /\ kwargs = kws
    /\ ret = NoCall
    /\ prev = NoCall
    /\ source = None
    /\ toolbar = None
    /\ warned = <<>>
    /\ figure = None
    /\ calls = <<>>

PopColorsAndAlpha ==
    /\ fn = ""
    /\ \E r \in {_pop_colors_and_alpha(args.glyphclass, kwargs, args.prefix,
                                       args.default_alpha)} :
           /\ ret' = Return(r.result)
           /\ kwargs' = r.kwargs
    /\ fn' = "_pop_colors_and_alpha"
    /\ prev' = ret
    /\ UNCHANGED <<args, source, toolbar, warned, figure, calls>>

SpecPopColorsAndAlpha == InitPopColorsAndAlpha /\ [][PopColorsAndAlpha]_vars

\* C4: for every prefix and every kwargs dict, _pop_colors_and_alpha returns
\* an entry for exactly those of fill_color, line_color, text_color,
\* fill_alpha, line_alpha, text_alpha that the glyph class declares, and a
\* value supplied as prefix+property is returned unchanged for such a
\* property, whatever the prefix+color or prefix+alpha shortcut and the
\* defaults are.
C4_ExplicitValueNeverOverridden ==
    fn = "_pop_colors_and_alpha" =>
        /\ ret.outcome = "return"
        /\ DOMAIN ret.value = ColorAlphaNames \cap args.glyphclass.properties
        /\ \A name \in DOMAIN ret.value :
               (args.prefix \o name) \in DOMAIN args.kwargs =>
                   ret.value[name] = args.kwargs[args.prefix \o name]

\* A call for the prefix nonselection_ with nonselection_fill_color and a
\* different nonselection_color, for a glyph class with fill_color: the
\* result has the explicit value.
C4_Witness ==
    /\ fn = "_pop_colors_and_alpha"
    /\ args.prefix = <<"n", "o", "n", "s", "e", "l", "e", "c", "t", "i", "o", "n", "_">>
    /\ s_fill_color \in args.glyphclass.properties
    /\ (<<"n", "o", "n", "s", "e", "l", "e", "c", "t", "i", "o", "n", "_">> \o s_fill_color) \in DOMAIN args.kwargs
    /\ (<<"n", "o", "n", "s", "e", "l", "e", "c", "t", "i", "o", "n", "_">> \o s_color) \in DOMAIN args.kwargs
    /\ args.kwargs[<<"n", "o", "n", "s", "e", "l", "e", "c", "t", "i", "o", "n", "_">> \o s_fill_color]
         # args.kwargs[<<"n", "o", "n", "s", "e", "l", "e", "c", "t", "i", "o", "n", "_">> \o s_color]
    /\ ret.value[s_fill_color] = args.kwargs[<<"n", "o", "n", "s", "e", "l", "e", "c", "t", "i", "o", "n", "_">> \o s_fill_color]
    /\ ret.value[s_line_color] = args.kwargs[<<"n", "o", "n", "s", "e", "l", "e", "c", "t", "i", "o", "n", "_">> \o s_color]

(***************************************************************************)
(* _process_sequence_literals (lines 129-156)                              *)
(*                                                                         *)
(* A ColumnDataSource is its column_names and its data.  The loop goes     *)
(* through the items of kwargs in the order of the dict, which the model   *)
(* leaves open.                                                            *)
(***************************************************************************)

\* isinstance(val, Iterable)
IsIterable(val) ==
    val.kind \in {"str", "list", "tuple", "set", "dict", "ndarray"}

\* val.ndim of an array
ndim(val) == Len(val.shape)

\* ColorSpec.is_color_tuple(val): a tuple of three or four elements.
is_color_tuple(val) == val.kind = "tuple" /\ Len(val.items) \in {3, 4}

\* A ColumnDataSource.
ColumnDataSource(column_names, data) ==
    [kind |-> "ColumnDataSource", column_names |-> column_names, data |-> data]

\* source.add(data, name=name): the source afterwards.
add(src, data, name) ==
    [src EXCEPT !.column_names = Append(@, name),
                !.data = Put(@, name, data)]

\* The loop body without the test of the number of dimensions.
ProcessLiteralAnyDim(st, glyphclass, var, is_user_source) ==
    IF st.raised # NoCall THEN st
    ELSE IF ~IsIterable(st.kwargs[var]) THEN st
    ELSE IF st.kwargs[var].kind = "dict" THEN st
    ELSE IF var \notin DOMAIN glyphclass.dataspecs THEN st
    ELSE IF st.kwargs[var].kind = "str" THEN st
    ELSE IF /\ glyphclass.dataspecs[var] = "ColorSpec"
            /\ is_color_tuple(st.kwargs[var])
    THEN st
    ELSE [st EXCEPT
            !.warned = IF is_user_source
                       THEN Append(@, [category |-> "BokehDeprecationWarning",
                                       message |-> "_GLYPH_SOURCE_MSG"])
                       ELSE @,
            !.source = add(@, st.kwargs[var], var),
            !.kwargs = Put(@, var, Str(var))]

\* The loop body with a color tuple passed over whatever the dataspec is.
ProcessLiteralAnyColorTuple(st, glyphclass, var, is_user_source) ==
    IF st.raised # NoCall THEN st
    ELSE IF ~IsIterable(st.kwargs[var]) THEN st
    ELSE IF st.kwargs[var].kind = "dict" THEN st
    ELSE IF var \notin DOMAIN glyphclass.dataspecs THEN st
    ELSE IF st.kwargs[var].kind = "str" THEN st
    ELSE IF is_color_tuple(st.kwargs[var])
    THEN st
    ELSE IF st.kwargs[var].kind = "ndarray" /\ ndim(st.kwargs[var]) # 1
    THEN [st EXCEPT !.raised = Raise([type |-> "RuntimeError",
                                      message |-> "Columns need to be 1D",
                                      var |-> var])]
    ELSE [st EXCEPT
            !.warned = IF is_user_source
                       THEN Append(@, [category |-> "BokehDeprecationWarning",
                                       message |-> "_GLYPH_SOURCE_MSG"])
                       ELSE @,
            !.source = add(@, st.kwargs[var], var),
            !.kwargs = Put(@, var, Str(var))]

\* The loop body (lines 133-156) for the item var of kwargs;
\* st = [kwargs, source, warned, raised], and an exception ends the loop.
ProcessLiteral(st, glyphclass, var, is_user_source) ==
    IF st.raised # NoCall THEN st
    ELSE IF ~IsIterable(st.kwargs[var]) THEN st
    ELSE IF st.kwargs[var].kind = "dict" THEN st
    ELSE IF var \notin DOMAIN glyphclass.dataspecs THEN st
    ELSE IF st.kwargs[var].kind = "str" THEN st
    ELSE IF /\ glyphclass.dataspecs[var] = "ColorSpec"
            /\ is_color_tuple(st.kwargs[var])
    THEN st
    ELSE IF st.kwargs[var].kind = "ndarray" /\ ndim(st.kwargs[var]) # 1
    THEN [st EXCEPT !.raised = Raise([type |-> "RuntimeError",
                                      message |-> "Columns need to be 1D",
                                      var |-> var])]
    ELSE [st EXCEPT
            !.warned = IF is_user_source
                       THEN Append(@, [category |-> "BokehDeprecationWarning",
                                       message |-> "_GLYPH_SOURCE_MSG"])
                       ELSE @,
            !.source = add(@, st.kwargs[var], var),
            !.kwargs = Put(@, var, Str(var))]

\* The loop of line 131 over the keys in the order items.
RECURSIVE ProcessLiterals(_, _, _, _)
ProcessLiterals(st, glyphclass, items, is_user_source) ==
    IF items = <<>> THEN st
    ELSE The({ ProcessLiterals(next, glyphclass, Tail(items), is_user_source) :
               next \in {ProcessLiteral(st, glyphclass, Head(items),
                                        is_user_source)} })

\* _process_sequence_literals(glyphclass, kwargs, source, is_user_source),
\* with the order of kwargs.items(): [kwargs, source, warned, raised].
_process_sequence_literals(glyphclass, kws, src, is_user_source, items) ==
    ProcessLiterals([kwargs |-> kws, source |-> src, warned |-> <<>>,
                     raised |-> NoCall],
                    glyphclass, items, is_user_source)

\* The orders a dict can hand out its keys in.
ItemOrders(d) ==
    {items \in [1..Cardinality(DOMAIN d) -> DOMAIN d] : Range(items) = DOMAIN d}

\* The most keywords of a call.
MaxLiterals == 2

\* The keywords: two dataspecs, one of them a color, and line_dash, which is
\* a property and no dataspec.
LiteralKeys == {s_x, s_fill_color, s_line_dash}

\* The values: a number, a string, a dict, a list, a tuple of three and a
\* tuple of two, a set, an array of one dimension and one of two.
LiteralValues ==
    { Num(5), Str(<<"r", "e", "d">>), Dict("field", Str(s_y)),
      List(<<Num(1), Num(2)>>), Tuple(<<Num(1), Num(2), Num(3)>>),
      Tuple(<<Num(1), Num(2)>>), Set({Num(1), Num(2)}),
      NdArray(<<2>>, <<Num(1), Num(2)>>),
      NdArray(<<2, 1>>, <<Num(1), Num(2)>>) }

\* The sources: a new one, and one that has a column x already.
Sources ==
    { ColumnDataSource(<<>>, <<>>),
      ColumnDataSource(<<s_x>>, Put(<<>>, s_x, List(<<Num(7), Num(8)>>))) }

InitProcessSequenceLiterals ==
    /\ fn = ""
    /\ \E glyphclass \in {Circle, Line}, is_user_source \in BOOLEAN,
          src \in Sources :
       \E kws \in Dicts(LiteralKeys, LiteralValues, MaxLiterals) :
           /\ args = [glyphclass |-> glyphclass, kwargs |-> kws,
                      source |-> src, is_user_source |-> is_user_source]
           /\ kwargs = kws
           /\ source = src
    /\ ret = NoCall
    /\ prev = NoCall
    /\ toolbar = None
    /\ warned = <<>>
    /\ figure = None
    /\ calls = <<>>

ProcessSequenceLiterals ==
    /\ fn = ""
    /\ \E items \in ItemOrders(kwargs) :
       \E r \in {_process_sequence_literals(args.glyphclass, kwargs, source,
                                            args.is_user_source, items)} :
           /\ kwargs' = r.kwargs
           /\ source' = r.source
           /\ warned' = r.warned
           /\ ret' = IF r.raised = NoCall THEN Return(None) ELSE r.raised
    /\ fn' = "_process_sequence_literals"
    /\ prev' = ret
    /\ UNCHANGED <<args, toolbar, figure, calls>>

SpecProcessSequenceLiterals ==
    InitProcessSequenceLiterals /\ [][ProcessSequenceLiterals]_vars

\* The times a name is in a list.
Count(seq, x) == Cardinality({i \in 1..Len(seq) : seq[i] = x})

\* The keyword var of the call has become a column: the source holds the
\* original value under the name, and kwargs holds the name.
BecameColumn(var) ==
    /\ var \in DOMAIN source.data
    /\ source.data[var] = args.kwargs[var]
    /\ Count(source.column_names, var)
         = Count(args.source.column_names, var) + 1
    /\ kwargs[var] = Str(var)

\* The keyword var of the call is as it was, and so is the column of its name.
LeftAlone(var) ==
    /\ kwargs[var] = args.kwargs[var]
    /\ Count(source.column_names, var) = Count(args.source.column_names, var)
    /\ (var \in DOMAIN source.data) = (var \in DOMAIN args.source.data)
    /\ var \in DOMAIN source.data => source.data[var] = args.source.data[var]

\* C5 as stated: after the call returns, every keyword whose value was a 1-D
\* sequence (not a string, dict or color tuple) and which names a data-bound
\* property has become a column of its name that holds the original
\* sequence, with kwargs rebound to the name; every other keyword keeps its
\* value and adds no column.
C5_SequencesBecomeColumns ==
    (fn = "_process_sequence_literals" /\ ret.outcome = "return") =>
        /\ DOMAIN kwargs = DOMAIN args.kwargs
        /\ \A var \in DOMAIN args.kwargs :
               IF /\ var \in DOMAIN args.glyphclass.dataspecs
                  /\ \/ args.kwargs[var].kind \in {"list", "tuple"}
                     \/ /\ args.kwargs[var].kind = "ndarray"
                        /\ ndim(args.kwargs[var]) = 1
                  /\ ~is_color_tuple(args.kwargs[var])
               THEN BecameColumn(var)
               ELSE LeftAlone(var)

\* C5: after the call returns, every keyword that names a data-bound property
\* and whose value is iterable, other than a string, a dict, and a color
\* tuple given for a color property, has become a column of its name that
\* holds the original value, with kwargs rebound to the name: a list, a
\* tuple (one of three or four elements too, when the property is no color),
\* a set, a 1-D array.  Every other keyword keeps its value and adds no
\* column.
C5_IterablesBecomeColumns ==
    (fn = "_process_sequence_literals" /\ ret.outcome = "return") =>
        /\ DOMAIN kwargs = DOMAIN args.kwargs
        /\ DOMAIN source.data = DOMAIN args.source.data
                                \cup {var \in DOMAIN kwargs : BecameColumn(var)}
        /\ \A var \in DOMAIN args.kwargs :
               IF /\ var \in DOMAIN args.glyphclass.dataspecs
                  /\ args.kwargs[var].kind \in {"list", "tuple", "set", "ndarray"}
                  /\ ~ (/\ args.glyphclass.dataspecs[var] = "ColorSpec"
                        /\ args.kwargs[var].kind = "tuple"
                        /\ Len(args.kwargs[var].items) \in {3, 4})
               THEN BecameColumn(var)
               ELSE LeftAlone(var)

\* A call that returned after it made a column of the list given for x and
\* of the tuple of three given for x, or passed over the same tuple given
\* for fill_color.
C5_Witness ==
    /\ fn = "_process_sequence_literals"
    /\ ret.outcome = "return"
    /\ s_x \in DOMAIN args.kwargs
    /\ s_fill_color \in DOMAIN args.kwargs
    /\ args.glyphclass = Circle
    /\ args.kwargs[s_x] = List(<<Num(1), Num(2)>>)
    /\ args.kwargs[s_fill_color] = Tuple(<<Num(1), Num(2), Num(3)>>)
    /\ source.data[s_x] = List(<<Num(1), Num(2)>>)
    /\ kwargs[s_x] = Str(s_x)
    /\ kwargs[s_fill_color] = Tuple(<<Num(1), Num(2), Num(3)>>)
    /\ s_fill_color \notin DOMAIN source.data

\* C9: a 2-D (multi-dimensional) array given for a data-bound keyword makes
\* the call raise the error that columns need to be 1D, and that value is
\* not added to the data source as a column: the keyword keeps the array and
\* the source has no column of its name that holds it.
C9_TwoDimensionalArrayRaises ==
    fn = "_process_sequence_literals" =>
        \A var \in DOMAIN args.kwargs :
            (/\ var \in DOMAIN args.glyphclass.dataspecs
             /\ args.kwargs[var].kind = "ndarray"
             /\ ndim(args.kwargs[var]) # 1) =>
                /\ ret.outcome = "raise"
                /\ ret.error.type = "RuntimeError"
                /\ ret.error.message = "Columns need to be 1D"
                /\ kwargs[var] = args.kwargs[var]
                /\ \A name \in DOMAIN source.data :
                       source.data[name] # args.kwargs[var]
                /\ Count(source.column_names, var)
                     = Count(args.source.column_names, var)

\* A call that raised for the 2-D array given for x after it had made a
\* column of the list given for fill_color.
C9_Witness ==
    /\ fn = "_process_sequence_literals"
    /\ s_x \in DOMAIN args.kwargs
    /\ args.kwargs[s_x] = NdArray(<<2, 1>>, <<Num(1), Num(2)>>)
    /\ ret.outcome = "raise"
    /\ ret.error.var = s_x
    /\ kwargs[s_x] = args.kwargs[s_x]
    /\ s_fill_color \in DOMAIN source.data
    /\ s_fill_color \in DOMAIN args.kwargs
    /\ source.data[s_fill_color] = args.kwargs[s_fill_color]

(***************************************************************************)
(* _process_legend_kwargs (lines 104-121)                                  *)
(***************************************************************************)

\* The keys of lines 105-121.
s_legend == <<"l", "e", "g", "e", "n", "d">>
s_label == <<"l", "a", "b", "e", "l">>
s_source == <<"s", "o", "u", "r", "c", "e">>

\* Whether Python takes the value for true in a condition.
Truthy(v) ==
    CASE v.kind = "None" -> FALSE
      [] v.kind = "str" -> v.chars # <<>>
      [] v.kind = "int" -> v.n # 0
      [] v.kind = "float" -> v.tenths # 0
      [] v.kind \in {"list", "tuple"} -> v.items # <<>>
      [] v.kind = "set" -> v.elems # {}
      [] OTHER -> TRUE

\* value(val) of core.properties: the dict of the one item value=val.
value(val) == Dict("value", val)

\* _process_legend_kwargs(kwargs): [kwargs, raised]; raised = NoCall when
\* the call returns (None).
_process_legend_kwargs(kws) ==
    IF Truthy(Get(kws, s_legend, None)) /\ Truthy(Get(kws, s_label, None))
    THEN [kwargs |-> kws,
          raised |-> Raise([type |-> "RuntimeError",
                            message |-> "Cannot set both legend and label at the same time."])]
    ELSE The({ [raised |-> NoCall,
                kwargs |->
                  IF Truthy(legend)
                  THEN IF legend.kind = "str"
                       THEN IF Truthy(src) /\ src.kind = "ColumnDataSource"
                            THEN IF Contains(src.column_names, legend.chars)
                                 THEN Put(popped, s_label, legend)
                                 ELSE Put(popped, s_label, value(legend))
                            ELSE popped
                       ELSE Put(popped, s_label, legend)
                  ELSE popped] :
               legend \in {Get(kws, s_legend, None)},
               popped \in {Del(kws, s_legend)},
               src \in {Get(kws, s_source, None)} })

\* The values given for legend: the name of a column, another string, the
\* empty string, None, a dict and a number.
LegendValues ==
    { Str(s_x), Str(<<"f", "o", "o">>), Str(<<>>), None,
      value(Str(<<"f", "o", "o">>)), Num(0) }

\* The values given for label.
LabelValues == { Str(<<"l", "a", "b">>), Str(<<>>), None }

\* The values given for source: None, a source with the columns x and y, a
\* source with no column, and a dict, which has no column_names.
SourceValues ==
    { None,
      ColumnDataSource(<<s_x, s_y>>,
          Put(Put(<<>>, s_x, List(<<Num(1), Num(2)>>)), s_y,
              List(<<Num(3), Num(4)>>))),
      ColumnDataSource(<<>>, <<>>),
      Dict("x", List(<<Num(1), Num(2)>>)) }

\* A dict with the key when a value is given, empty otherwise.
Item(key, val, given) == IF given THEN Put(<<>>, key, val) ELSE <<>>

\* The kwargs of a glyph method: legend, label, source and x, each given or
\* not.
LegendKwargs ==
    { Item(s_legend, legend, g[1]) @@ Item(s_label, label, g[2])
      @@ Item(s_source, src, g[3]) @@ Item(s_x, List(<<Num(1), Num(2)>>), g[4]) :
        legend \in LegendValues, label \in LabelValues, src \in SourceValues,
        g \in [1..4 -> BOOLEAN] }

InitProcessLegendKwargs ==
    /\ fn = ""
    /\ kwargs \in LegendKwargs
    /\ args = [kwargs |-> kwargs]
    /\ ret = NoCall
    /\ prev = NoCall
    /\ source = None
    /\ toolbar = None
    /\ warned = <<>>
    /\ figure = None
    /\ calls = <<>>

ProcessLegendKwargs ==
    /\ fn = ""
    /\ \E r \in {_process_legend_kwargs(kwargs)} :
           /\ kwargs' = r.kwargs
           /\ ret' = IF r.raised = NoCall THEN Return(None) ELSE r.raised
    /\ fn' = "_process_legend_kwargs"
    /\ prev' = ret
    /\ UNCHANGED <<args, source, toolbar, warned, figure, calls>>

SpecProcessLegendKwargs ==
    InitProcessLegendKwargs /\ [][ProcessLegendKwargs]_vars

\* The legend of the call is a name of a column of the source of the call.
LegendIsColumn ==
    /\ s_source \in DOMAIN args.kwargs
    /\ args.kwargs[s_source].kind = "ColumnDataSource"
    /\ Contains(args.kwargs[s_source].column_names, args.kwargs[s_legend].chars)

\* C10: _process_legend_kwargs always removes legend from kwargs; for a
\* non-empty string legend it sets kwargs['label'], to the legend string
\* itself when the legend is a column name of the data source and to
\* value(legend) when it is not in the column data source; a non-empty
\* legend that is no string is stored as the label unchanged.
C10_LegendBecomesLabel ==
    fn = "_process_legend_kwargs" =>
        /\ s_legend \notin DOMAIN kwargs
        /\ (s_legend \in DOMAIN args.kwargs /\ Truthy(args.kwargs[s_legend])) =>
               /\ s_label \in DOMAIN kwargs
               /\ kwargs[s_label] =
                    IF args.kwargs[s_legend].kind # "str"
                    THEN args.kwargs[s_legend]
                    ELSE IF LegendIsColumn THEN args.kwargs[s_legend]
                    ELSE value(args.kwargs[s_legend])

(***************************************************************************)
(* _get_range (lines 175-188)                                              *)
(*                                                                         *)
(* A range is an object with an identity.  Range1d checks its arguments    *)
(* and raises ValueError for a start or an end that is no number.          *)
(***************************************************************************)

\* The range classes.
DataRange1d(id) == [kind |-> "DataRange1d", id |-> id]
FactorRange(id, factors) == [kind |-> "FactorRange", id |-> id, factors |-> factors]
Range1d(id, start, end) == [kind |-> "Range1d", id |-> id, start |-> start, end |-> end]

\* isinstance(range_input, Range)
IsRange(v) == v.kind \in {"DataRange1d", "FactorRange", "Range1d"}

\* isinstance(range_input, Sequence), for the values of the model: a str is
\* a Sequence too, of its characters.
IsSequence(v) == v.kind \in {"list", "tuple", "str"}

\* Whether Range1d(start=start, end=end) raises no ValueError.
Range1dAccepts(start, end) ==
    start.kind \in {"int", "float"} /\ end.kind \in {"int", "float"}

\* The error of line 188.
UnrecognizedRangeInput(range_input) ==
    Raise([type |-> "ValueError", message |-> "Unrecognized range input",
           range_input |-> range_input])

\* _get_range with start and end the wrong way round.
_get_range_end_first(range_input, id) ==
    IF range_input = None THEN Return(DataRange1d(id))
    ELSE IF IsRange(range_input) THEN Return(range_input)
    ELSE IF IsSequence(range_input)
    THEN IF \/ range_input.kind = "str"
            \/ \A i \in 1..Len(range_input.items) : range_input.items[i].kind = "str"
         THEN Return(FactorRange(id, range_input))
         ELSE IF /\ Len(range_input.items) = 2
                 /\ Range1dAccepts(range_input.items[2], range_input.items[1])
         THEN Return(Range1d(id, range_input.items[2], range_input.items[1]))
         ELSE UnrecognizedRangeInput(range_input)
    ELSE UnrecognizedRangeInput(range_input)

\* _get_range(range_input); id is the identity of the range it makes.
_get_range(range_input, id) ==
    IF range_input = None THEN Return(DataRange1d(id))
    ELSE IF IsRange(range_input) THEN Return(range_input)
    ELSE IF IsSequence(range_input)
    THEN IF \/ range_input.kind = "str"
            \/ \A i \in 1..Len(range_input.items) : range_input.items[i].kind = "str"
         THEN Return(FactorRange(id, range_input))
         ELSE IF /\ Len(range_input.items) = 2
                 /\ Range1dAccepts(range_input.items[1], range_input.items[2])
         THEN Return(Range1d(id, range_input.items[1], range_input.items[2]))
         ELSE UnrecognizedRangeInput(range_input)
    ELSE UnrecognizedRangeInput(range_input)

\* The most elements of a sequence given as a range.
MaxRangeLen == 3

\* The elements of the sequences: labels and numbers.
RangeElements ==
    { Str(<<"a">>), Str(<<"b">>), Num(0), Num(10), Float(5) }

\* The inputs: None, ranges, lists and tuples of up to MaxRangeLen elements,
\* strings, and values that are neither a range nor a sequence.
RangeInputs ==
    { None, DataRange1d(1), Range1d(1, Num(0), Num(10)),
      FactorRange(1, List(<<Str(<<"a">>)>>)),
      Str(<<>>), Str(<<"a">>), Str(<<"a", "b">>), Str(<<"a", "b", "c">>),
      Num(5), Set({Num(0), Num(10)}), Dict("start", Num(0)) }
    \cup { List(items) :
             items \in UNION { [1..n -> RangeElements] : n \in 0..MaxRangeLen } }
    \cup { Tuple(items) :
             items \in UNION { [1..n -> RangeElements] : n \in 0..MaxRangeLen } }

\* The identities of the ranges of a value.
RangeIds(v) == IF v.kind \in {"DataRange1d", "FactorRange", "Range1d"} THEN {v.id} ELSE {}

InitGetRange ==
    /\ fn = ""
    /\ args \in [range_input : RangeInputs]
    /\ ret = NoCall
    /\ prev = NoCall
    /\ kwargs = None
    /\ source = None
    /\ toolbar = None
    /\ warned = <<>>
    /\ figure = None
    /\ calls = <<>>

GetRange ==
    /\ prev = NoCall
    /\ \E ids \in { NewIds(RangeIds(args.range_input)
                           \cup (IF ret.outcome = "return"
                                 THEN RangeIds(ret.value) ELSE {}), 1) } :
           ret' = _get_range(args.range_input, ids[1])
    /\ fn' = "_get_range"
    /\ prev' = ret
    /\ UNCHANGED <<args, kwargs, source, toolbar, warned, figure, calls>>

SpecGetRange == InitGetRange /\ [][GetRange]_vars

\* Every element of the sequence is a string.
AllLabels(v) == \A i \in 1..Len(v.items) : v.items[i].kind = "str"

\* The sequence is a pair of numbers.
NumericPair(v) ==
    /\ Len(v.items) = 2
    /\ \A i \in 1..2 : v.items[i].kind \in {"int", "float"}

\* C6: _get_range gives, for None, a DataRange1d; for a Range object, that
\* object; for a sequence of string labels, a FactorRange with exactly those
\* factors in the same order (a str is such a sequence, of its characters,
\* and is itself the factors); for a pair of numbers (a, b), a Range1d with
\* start a and end b; and for every other input it raises the error for an
\* unrecognized range input and returns no range.
C6_RangeForEveryInput ==
    fn = "_get_range" =>
        LET range_input == args.range_input
        IN  CASE range_input = None ->
                   /\ ret.outcome = "return"
                   /\ ret.value.kind = "DataRange1d"
              [] IsRange(range_input) ->
                   ret = Return(range_input)
              [] range_input.kind \in {"list", "tuple"} /\ AllLabels(range_input) ->
                   /\ ret.outcome = "return"
                   /\ ret.value.kind = "FactorRange"
                   /\ ret.value.factors.items = range_input.items
              [] range_input.kind = "str" ->
                   /\ ret.outcome = "return"
                   /\ ret.value.kind = "FactorRange"
                   /\ ret.value.factors.kind = "str"
                   /\ ret.value.factors.chars = range_input.chars
              [] /\ range_input.kind \in {"list", "tuple"}
                 /\ ~AllLabels(range_input)
                 /\ NumericPair(range_input) ->
                   /\ ret.outcome = "return"
                   /\ ret.value.kind = "Range1d"
                   /\ ret.value.start = range_input.items[1]
                   /\ ret.value.end = range_input.items[2]
              [] OTHER ->
                   /\ ret.outcome = "raise"
                   /\ ret.error.type = "ValueError"
                   /\ ret.error.message = "Unrecognized range input"
                   /\ ret.error.range_input = range_input

\* Calls that gave a Range1d from 0 to 10 for the tuple (0, 10), and that
\* gave a second one of another identity when made again.
C6_Witness ==
    /\ fn = "_get_range"
    /\ args.range_input = Tuple(<<Num(0), Num(10)>>)
    /\ ret.outcome = "return"
    /\ ret.value.kind = "Range1d"
    /\ ret.value.start = Num(0)
    /\ ret.value.end = Num(10)
    /\ prev.outcome = "return"
    /\ prev.value.id # ret.value.id

(***************************************************************************)
(* _glyph_function.func and _update_legend (lines 164-173, 421-475)        *)
(*                                                                         *)
(* A plot is its renderers and its tools.  Legends, glyph renderers and    *)
(* tools are objects with an identity; a list that refers to renderers     *)
(* (legend.legends, tool.renderers) holds their identities.                *)
(***************************************************************************)

\* The key of line 68.
s_data_source == <<"d", "a", "t", "a", "_", "s", "o", "u", "r", "c", "e">>

\* A Legend and what was appended to its legends.
Legend(id, legends) ==
    [kind |-> "Renderer", view_model |-> "Legend", id |-> id, legends |-> legends]

\* A glyph: glyphclass(**kws).
Glyph(glyphclass, kws) == [kind |-> "glyph", cls |-> glyphclass.name, kws |-> kws]

\* glyph.label
label(glyph) == Get(glyph.kws, s_label, None)

\* GlyphRenderer(glyph=..., nonselection_glyph=..., selection_glyph=...,
\* hover_glyph=..., **renderer_kws)
GlyphRenderer(id, glyph, nonselection_glyph, selection_glyph, hover_glyph, renderer_kws) ==
    [kind |-> "Renderer", view_model |-> "GlyphRenderer", id |-> id,
     glyph |-> glyph, nonselection_glyph |-> nonselection_glyph,
     selection_glyph |-> selection_glyph, hover_glyph |-> hover_glyph,
     kws |-> renderer_kws]

\* plot.select(type=Legend): the Legends of the plot.
select_Legend(self) ==
    SelectSeq(self.renderers, LAMBDA r : r.view_model = "Legend")

\* plot.add_layout(obj): the plot afterwards.
add_layout(self, obj) == [self EXCEPT !.renderers = Append(@, obj)]

\* d.update(e): the dict afterwards.
Update(d, e) ==
    [k \in DOMAIN d \cup DOMAIN e |-> IF k \in DOMAIN e THEN e[k] ELSE d[k]]

\* dict(zip(names, values))
Zip(names, values) ==
    [k \in {names[i] : i \in 1..Min(Len(names), Len(values))} |->
        values[CHOOSE i \in 1..Min(Len(names), Len(values)) :
                 /\ names[i] = k
                 /\ \A j \in (i + 1)..Min(Len(names), Len(values)) : names[j] # k]]

\* glyphclass._args of the glyph classes of the calls.
_args(glyphclass) == <<s_x, s_y>>

\* The loop body of lines 69-71 for the attributes in the order attrs;
\* st = [kwargs, result].
RECURSIVE PopRendererAttrs(_, _)
PopRendererAttrs(st, attrs) ==
    IF attrs = <<>> THEN st
    ELSE PopRendererAttrs(
             [kwargs |-> Del(st.kwargs, Head(attrs)),
              result |-> IF Truthy(Get(st.kwargs, Head(attrs), None))
                         THEN Put(st.result, Head(attrs), st.kwargs[Head(attrs)])
                         ELSE st.result],
             Tail(attrs))

\* _pop_renderer_args(kwargs): [kwargs, result].
_pop_renderer_args(kws) ==
    PopRendererAttrs(
        [kwargs |-> Del(kws, s_source),
         result |-> Put(<<>>, s_data_source,
                        Get(kws, s_source, ColumnDataSource(<<>>, <<>>)))],
        << <<"n", "a", "m", "e">>,
           <<"x", "_", "r", "a", "n", "g", "e", "_", "n", "a", "m", "e">>,
           <<"y", "_", "r", "a", "n", "g", "e", "_", "n", "a", "m", "e">>,
           <<"l", "e", "v", "e", "l">> >>)

\* _make_glyph(glyphclass, kws, extra)
_make_glyph(glyphclass, kws, extra) ==
    IF extra = None THEN None ELSE Glyph(glyphclass, Update(kws, extra))

\* The legend of the plot with the identity id after
\* legend.legends.append(glyph_renderer).
AppendToLegend(self, id, glyph_renderer) ==
    [self EXCEPT !.renderers =
        [i \in 1..Len(@) |->
            IF @[i].view_model = "Legend" /\ @[i].id = id
            THEN [@[i] EXCEPT !.legends = Append(@, glyph_renderer.id)]
            ELSE @[i]]]

\* _update_legend with a legend always made anew.
_update_legend_always_new(self, glyph_renderer, id) ==
    [raised |-> NoCall,
     figure |-> AppendToLegend(add_layout(self, Legend(id, <<>>)), id,
                               glyph_renderer)]

\* _update_legend(plot, glyph_renderer): [figure, raised]; id is the
\* identity of the Legend it makes.
_update_legend(self, glyph_renderer, id) ==
    The({ IF legends = <<>>
          THEN [raised |-> NoCall,
                figure |-> AppendToLegend(add_layout(self, Legend(id, <<>>)),
                                          id, glyph_renderer)]
          ELSE IF Len(legends) = 1
          THEN [raised |-> NoCall,
                figure |-> AppendToLegend(self, legends[1].id, glyph_renderer)]
          ELSE [raised |-> Raise([type |-> "RuntimeError",
                                  message |-> "Plot configured with more than one legend renderer"]),
                figure |-> self] :
          legends \in {select_Legend(self)} })

\* Lines 423-434 of func: the legend keywords, the renderer keywords, the
\* positional arguments and the colors of the main glyph.
\* [raised, kwargs, glyph_ca, renderer_kws, is_user_source]
FuncArguments(glyphclass, args_, kws) ==
    The({ IF legend.raised # NoCall
          THEN [raised |-> legend.raised, kwargs |-> legend.kwargs,
                glyph_ca |-> <<>>, renderer_kws |-> <<>>,
                is_user_source |-> FALSE]
          ELSE The({ The({ [raised |-> NoCall, kwargs |-> ca.kwargs,
                            glyph_ca |-> ca.result,
                            renderer_kws |-> renderer.result,
                            is_user_source |->
                                Get(legend.kwargs, s_source, None) # None] :
                           ca \in { _pop_colors_and_alpha(glyphclass,
                                        Update(renderer.kwargs,
                                               Zip(_args(glyphclass), args_)),
                                        <<>>, Float(10)) } }) :
                     renderer \in {_pop_renderer_args(legend.kwargs)} }) :
          legend \in {_process_legend_kwargs(kws)} })

\* Lines 435-436 of func: the literals of kwargs and of glyph_ca, for the
\* orders items and ca_items of the two dicts.  The source is the one of
\* renderer_kws.  [raised, kwargs, glyph_ca, renderer_kws, warned]
FuncLiterals(head, glyphclass, items, ca_items) ==
    IF head.raised # NoCall
    THEN [raised |-> head.raised, kwargs |-> head.kwargs,
          glyph_ca |-> head.glyph_ca, renderer_kws |-> head.renderer_kws,
          warned |-> <<>>]
    ELSE The({ IF first.raised # NoCall
               THEN [raised |-> first.raised, kwargs |-> first.kwargs,
                     glyph_ca |-> head.glyph_ca,
                     renderer_kws |-> Put(head.renderer_kws, s_data_source,
                                          first.source),
                     warned |-> first.warned]
               ELSE The({ [raised |-> second.raised, kwargs |-> first.kwargs,
                           glyph_ca |-> second.kwargs,
                           renderer_kws |-> Put(head.renderer_kws,
                                                s_data_source, second.source),
                           warned |-> first.warned \o second.warned] :
                          second \in
                            { _process_sequence_literals(glyphclass,
                                  head.glyph_ca, first.source,
                                  head.is_user_source, ca_items) } }) :
               first \in
                 { _process_sequence_literals(glyphclass, head.kwargs,
                       head.renderer_kws[s_data_source], head.is_user_source,
                       items) } })

\* Lines 442-445 and 448-451: the colors of a glyph that is made only when a
\* keyword starts with the prefix.  [kwargs, result]
PopColorsIfAny(glyphclass, kws, prefix) ==
    IF \E x \in DOMAIN kws :
           Len(prefix) <= Len(x) /\ SubSeq(x, 1, Len(prefix)) = prefix
    THEN _pop_colors_and_alpha(glyphclass, kws, prefix, Float(10))
    ELSE [kwargs |-> kws, result |-> None]

\* Lines 467-474: the renderer joins the BoxSelectTools and the renderers
\* of the plot.
AddRenderer(self, glyph_renderer) ==
    [self EXCEPT
       !.tools = [i \in 1..Len(@) |->
                    IF @[i].cls = "BoxSelectTool"
                    THEN [@[i] EXCEPT !.renderers = Append(@, glyph_renderer.id)]
                    ELSE @[i]],
       !.renderers = Append(@, glyph_renderer)]

\* Lines 464-475: the legend, the tools and the renderers.  [figure, ret]
FuncRegister(self, glyph_renderer, id) ==
    IF Truthy(label(glyph_renderer.glyph))
    THEN The({ IF updated.raised # NoCall
               THEN [figure |-> self, ret |-> updated.raised]
               ELSE [figure |-> AddRenderer(updated.figure, glyph_renderer),
                     ret |-> Return(glyph_renderer)] :
               updated \in {_update_legend(self, glyph_renderer, id)} })
    ELSE [figure |-> AddRenderer(self, glyph_renderer),
          ret |-> Return(glyph_renderer)]

\* Lines 439-475 of func: the other glyphs, the renderer, the legend.
\* ids are the identities of the renderer and of a new Legend.
\* [figure, ret, kwargs]
FuncRenderer(self, glyphclass, lit, ids) ==
    IF lit.raised # NoCall
    THEN [figure |-> self, ret |-> lit.raised, kwargs |-> lit.kwargs]
    ELSE The({ The({ The({ The({ [figure |-> registered.figure,
                                  ret |-> registered.ret,
                                  kwargs |-> hover.kwargs] :
                 registered \in
                   { FuncRegister(self,
                         GlyphRenderer(ids[1],
                             _make_glyph(glyphclass, hover.kwargs, lit.glyph_ca),
                             _make_glyph(glyphclass, hover.kwargs, nonselection.result),
                             _make_glyph(glyphclass, hover.kwargs, selection.result),
                             _make_glyph(glyphclass, hover.kwargs, hover.result),
                             lit.renderer_kws),
                         ids[2]) } }) :
                 hover \in {PopColorsIfAny(glyphclass, selection.kwargs, <<"h", "o", "v", "e", "r", "_">>)} }) :
                 selection \in {PopColorsIfAny(glyphclass, nonselection.kwargs,
                                               <<"s", "e", "l", "e", "c", "t", "i", "o", "n", "_">>)} }) :
                 nonselection \in
                   { _pop_colors_and_alpha(glyphclass, lit.kwargs,
                                           <<"n", "o", "n", "s", "e", "l", "e", "c", "t", "i", "o", "n", "_">>, Float(1)) } })

\* The orders of the items of a dict that the calls are run with: the order
\* the keys were inserted in (inserted has the keys in the order the code
\* set them; a key set again keeps its first place), which is the order of
\* a dict that keeps insertion order, and the orders by key, upwards and
\* downwards, for a dict that does not.
SomeItemOrders(d, inserted) ==
    {items \in ItemOrders(d) :
        \/ \A i \in 1..(Len(items) - 1) :
               \E p \in 1..Len(inserted) :
                   /\ inserted[p] = items[i]
                   /\ \A q \in 1..p : inserted[q] # items[i + 1]
        \/ \A i \in 1..(Len(items) - 1) : StrLess(items[i], items[i + 1])
        \/ \A i \in 1..(Len(items) - 1) : StrLess(items[i + 1], items[i])}

\* func(self, *args, **kwargs) of the glyph class, for the orders of the two
\* dicts: [figure, ret, kwargs, source, warned].
func(self, glyphclass, args_, kws, ids, items, ca_items) ==
    The({ The({ [figure |-> r.figure, ret |-> r.ret, kwargs |-> r.kwargs,
                 source |-> Get(lit.renderer_kws, s_data_source, None),
                 warned |-> lit.warned] :
                r \in {FuncRenderer(self, glyphclass, lit, ids)} }) :
          lit \in { FuncLiterals(head, glyphclass, items, ca_items) :
                      head \in {FuncArguments(glyphclass, args_, kws)} } })

\* The most calls made on a plot.
MaxCalls == 2

\* The source a call is given: the columns x and y.
UserSource ==
    ColumnDataSource(<<s_x, s_y>>,
        Put(Put(<<>>, s_x, List(<<Num(1), Num(2)>>)), s_y,
            List(<<Num(3), Num(4)>>)))

\* The calls: circle(xs, ys, ...) with no legend, a legend that is no
\* column, a legend that is a column, a label, and a legend and a label;
\* the same with a source and a legend; line(xs, ys, legend=value("bar"));
\* circle(x=a 2-D array, legend="x", source=...).  keywords are the names of
\* the keywords in the order they are given in.
GlyphCalls ==
    { [glyphclass |-> Circle,
       args |-> <<List(<<Num(1), Num(2)>>), List(<<Num(3), Num(4)>>)>>,
       keywords |-> kw.names,
       kwargs |-> Zip(kw.names, kw.values)] :
        kw \in
          { [names |-> <<>>, values |-> <<>>],
            [names |-> <<s_legend>>, values |-> <<Str(<<"f", "o", "o">>)>>],
            [names |-> <<s_legend>>, values |-> <<Str(s_x)>>],
            [names |-> <<s_label>>, values |-> <<Str(<<"l", "a", "b">>)>>],
            [names |-> <<s_legend, s_label>>,
             values |-> <<Str(<<"f", "o", "o">>), Str(<<"l", "a", "b">>)>>],
            [names |-> <<s_source, s_legend>>,
             values |-> <<UserSource, Str(<<"f", "o", "o">>)>>],
            [names |-> <<s_source, s_legend>>,
             values |-> <<UserSource, Str(s_x)>>] } }
    \cup
    { [glyphclass |-> Line,
       args |-> <<List(<<Num(1), Num(2)>>), List(<<Num(3), Num(4)>>)>>,
       keywords |-> <<s_legend>>,
       kwargs |-> Zip(<<s_legend>>, <<value(Str(<<"b", "a", "r">>))>>)],
      [glyphclass |-> Circle,
       args |-> <<>>,
       keywords |-> <<s_x, s_legend, s_source>>,
       kwargs |-> Zip(<<s_x, s_legend, s_source>>,
                      <<NdArray(<<2, 1>>, <<Num(1), Num(2)>>), Str(s_x),
                        UserSource>>)] }

\* The plots the calls start from: two axes, with no Legend, one or two, and
\* with or without a BoxSelectTool among the tools.
Figures ==
    { [kind |-> "Plot",
        renderers |-> Repeat("LinearAxis", 2) \o [i \in 1..n |-> Legend(i, <<>>)],
        tools |-> tools] :
        n \in 0..2,
        tools \in { <<>>,
                    <<Tool(3, "PanTool", <<>>),
                      [kind |-> "Tool", id |-> 4, cls |-> "BoxSelectTool",
                       kw |-> <<>>, renderers |-> <<>>]>> } }

\* The identities of the objects of a plot.
FigureIds(self) ==
    {self.renderers[i].id :
        i \in {j \in 1..Len(self.renderers) : self.renderers[j].view_model # "LinearAxis"}}
    \cup {self.tools[i].id : i \in 1..Len(self.tools)}

InitGlyphMethods ==
    /\ fn = ""
    /\ figure \in Figures
    /\ calls = <<>>
    /\ args = None
    /\ ret = NoCall
    /\ prev = NoCall
    /\ kwargs = None
    /\ source = None
    /\ toolbar = None
    /\ warned = <<>>

GlyphMethod ==
    /\ Len(calls) < MaxCalls
    /\ \E call \in GlyphCalls :
       \E ids \in {NewIds(FigureIds(figure), 2)} :
       \E head \in {FuncArguments(call.glyphclass, call.args, call.kwargs)} :
       \E items \in SomeItemOrders(head.kwargs,
                         call.keywords \o <<s_label>> \o _args(call.glyphclass)),
          ca_items \in SomeItemOrders(head.glyph_ca,
                         <<s_fill_color, s_line_color, s_text_color,
                           s_fill_alpha, s_line_alpha, s_text_alpha>>) :
       \E r \in {func(figure, call.glyphclass, call.args, call.kwargs, ids,
                      items, ca_items)} :
           /\ figure' = r.figure
           /\ ret' = r.ret
           /\ kwargs' = r.kwargs
           /\ source' = r.source
           /\ warned' = r.warned
           /\ args' = call
           /\ calls' = Append(calls, [call |-> call, before |-> figure,
                                      ret |-> r.ret])
    /\ fn' = "func"
    /\ prev' = ret
    /\ UNCHANGED toolbar

SpecGlyphMethods == InitGlyphMethods /\ [][GlyphMethod]_vars

\* The plot the calls started from, and the plot the i-th call left.
FigureAtStart == IF calls = <<>> THEN figure ELSE calls[1].before
FigureAfter(i) == IF i = Len(calls) THEN figure ELSE calls[i + 1].before

\* The places of the Legends among the renderers of a plot.
LegendPlaces(self) ==
    {i \in 1..Len(self.renderers) : self.renderers[i].view_model = "Legend"}

\* The i-th call returned a renderer whose glyph has a label.
Labelled(i) ==
    /\ calls[i].ret.outcome = "return"
    /\ Truthy(label(calls[i].ret.value.glyph))

\* The renderers of the labelled calls among the first n, in call order.
RECURSIVE LabelledRenderers(_)
LabelledRenderers(n) ==
    IF n = 0 THEN <<>>
    ELSE IF Labelled(n)
    THEN Append(LabelledRenderers(n - 1), calls[n].ret.value.id)
    ELSE LabelledRenderers(n - 1)

\* On a plot that started with no Legend: after every call there is a Legend
\* exactly when a call so far was labelled, there is one Legend at most, and
\* its entries are the renderers of the labelled calls in call order.
OneLegendOfLabelledRenderers ==
    LegendPlaces(FigureAtStart) = {} =>
        \A i \in 1..Len(calls) :
            /\ Cardinality(LegendPlaces(FigureAfter(i)))
                 = IF LabelledRenderers(i) = <<>> THEN 0 ELSE 1
            /\ \A p \in LegendPlaces(FigureAfter(i)) :
                   FigureAfter(i).renderers[p].legends = LabelledRenderers(i)

\* The i-th call returned a renderer that no renderer of the plot before is,
\* and that is the last renderer of the plot now.
NewRendererAtEnd(i) ==
    /\ calls[i].ret.outcome = "return"
    /\ calls[i].ret.value.view_model = "GlyphRenderer"
    /\ calls[i].ret.value.id \notin FigureIds(calls[i].before)
    /\ FigureAfter(i).renderers[Len(FigureAfter(i).renderers)] = calls[i].ret.value

\* The label the glyph of a call gets from the legend and label keywords.
CallLabel(call) ==
    LET legend == Get(call.kwargs, s_legend, None)
        src == Get(call.kwargs, s_source, None)
    IN  IF ~Truthy(legend) THEN Get(call.kwargs, s_label, None)
        ELSE IF legend.kind # "str" THEN legend
        ELSE IF src.kind # "ColumnDataSource" THEN Get(call.kwargs, s_label, None)
        ELSE IF Contains(src.column_names, legend.chars) THEN legend
        ELSE value(legend)

\* The call fails before it has a renderer: legend and label are both
\* given, or an array of more than one dimension is.
CallFailsEarly(call) ==
    \/ /\ Truthy(Get(call.kwargs, s_legend, None))
       /\ Truthy(Get(call.kwargs, s_label, None))
    \/ \E k \in DOMAIN call.kwargs :
           call.kwargs[k].kind = "ndarray" /\ ndim(call.kwargs[k]) # 1

\* C11 as stated: after any sequence of glyph-method calls on a plot that
\* starts with no Legend the plot holds at most one Legend, which the first
\* labelled call creates and whose entries are the labelled renderers in
\* call order; each successful call appends exactly one new renderer at the
\* end of plot.renderers; and a call on a plot that has two or more Legends
\* raises without adding a renderer.
C11_OneLegendOneRendererPerCall ==
    fn = "func" =>
        /\ OneLegendOfLabelledRenderers
        /\ \A i \in 1..Len(calls) :
               /\ calls[i].ret.outcome = "return" =>
                      /\ NewRendererAtEnd(i)
                      /\ Len(FigureAfter(i).renderers)
                           = Len(calls[i].before.renderers) + 1
               /\ Cardinality(LegendPlaces(calls[i].before)) >= 2 =>
                      /\ calls[i].ret.outcome = "raise"
                      /\ FigureAfter(i).renderers = calls[i].before.renderers

\* C11: after any sequence of glyph-method calls on a plot that starts with
\* no Legend the plot holds at most one Legend, which the first labelled
\* call creates and whose entries are the labelled renderers in call order.
\* Each successful call appends one new GlyphRenderer at the end of
\* plot.renderers, after the new Legend when it is the call that creates
\* the Legend, so that the list grows by two then and by one otherwise.  A
\* call that raises leaves the plot as it was.  On a plot that has two or
\* more Legends a call whose glyph has a label raises without adding a
\* renderer, and a call whose glyph has no label succeeds.
C11_OneLegendForLabelledCalls ==
    fn = "func" =>
        /\ OneLegendOfLabelledRenderers
        /\ \A i \in 1..Len(calls) :
               /\ calls[i].ret.outcome = "return" =>
                      /\ NewRendererAtEnd(i)
                      /\ label(calls[i].ret.value.glyph) = CallLabel(calls[i].call)
                      /\ Len(FigureAfter(i).renderers)
                           = Len(calls[i].before.renderers)
                             + (IF Labelled(i) /\ LegendPlaces(calls[i].before) = {}
                                THEN 2 ELSE 1)
                      /\ (Labelled(i) /\ LegendPlaces(calls[i].before) = {}) =>
                             (Len(FigureAfter(i).renderers) - 1)
                                 \in LegendPlaces(FigureAfter(i))
               /\ calls[i].ret.outcome = "raise" =>
                      FigureAfter(i) = calls[i].before
               /\ calls[i].ret.outcome = "raise" <=>
                      \/ CallFailsEarly(calls[i].call)
                      \/ /\ Truthy(CallLabel(calls[i].call))
                         /\ Cardinality(LegendPlaces(calls[i].before)) >= 2
               /\ (/\ ~CallFailsEarly(calls[i].call)
                   /\ Truthy(CallLabel(calls[i].call))
                   /\ Cardinality(LegendPlaces(calls[i].before)) >= 2) =>
                      calls[i].ret.error.message
                          = "Plot configured with more than one legend renderer"

\* Two labelled calls on a plot that started with no Legend: the plot has
\* one Legend, after the two axes, and its entries are the two renderers in
\* call order.
C11_Witness ==
    /\ fn = "func"
    /\ Len(calls) = 2
    /\ LegendPlaces(FigureAtStart) = {}
    /\ Labelled(1)
    /\ Labelled(2)
    /\ LegendPlaces(figure) = {3}
    /\ figure.renderers[3].legends
         = <<calls[1].ret.value.id, calls[2].ret.value.id>>
    /\ figure.renderers[4] = calls[1].ret.value
    /\ figure.renderers[5] = calls[2].ret.value

====
